---------------------------- MODULE Spec2Model ----------------------------
(***************************************************************************)
(* A model of the county ranking pipeline of run.py: the policy join       *)
(* (get_existing_policies), clean_data, normalize, cross_features,         *)
(* rank_counties, priority_indicator and the two presentation paths        *)
(* (print_summary for MODE = 'SCRIPT', run_UI for MODE = 'UI').            *)
(*                                                                         *)
(* Numbers.  The program computes in IEEE doubles.  The model computes in  *)
(* exact rationals <<n, d>> (d > 0, lowest terms) extended with the three  *)
(* non-finite doubles: NaN = <<0, 0>>, +inf = <<1, 0>>, -inf = <<-1, 0>>.  *)
(* Rounding is therefore not modelled; 0/0, x/0 and the propagation of NaN *)
(* are.  A value divided by sqrt(t) is kept as the pair [coef, rad]        *)
(* standing for coef / sqrt(rad) and is compared by squaring.              *)
(*                                                                         *)
(* Tables.  A DataFrame is [cols |-> set of column names, rows |-> a       *)
(* sequence of [name |-> the 'County Name' label, cells |-> a function     *)
(* from the column names to values]].                                      *)
(***************************************************************************)
EXTENDS Integers, Sequences, FiniteSets, TLC

VARIABLES
    mode,         \* MODE: 'SCRIPT' or 'UI'
    pc,           \* where the run is
    fetched,      \* the frame load_all_data / filter_* handed over
    df,           \* the caller's frame: get_existing_policies' result onwards
    temp_df,      \* get_existing_policies: the join waiting for the user's answer
    analysis_df,  \* rank_counties: the scaled frame and its result
    crossed,      \* rank_counties: what cross_features returned
    shown,        \* the frame shown to the user, sorted
    pin,          \* arguments of a direct call of a function of run.py
    pout,         \* its results
    tracts,       \* equity explorer: the tracts of the chosen county
    concentration,    \* equity explorer: the position of the slider
    equity,       \* equity explorer: get_equity_geographies' result per position
    normalized_data,  \* equity explorer: the normalized indicator tables
    index_value,  \* equity explorer: the weight typed for each indicator
    weight_error, \* equity explorer: whether st.error is on the page
    transport_index,  \* equity explorer: the vulnerability index, sorted
    num_tracts,   \* equity explorer: the position of the tract slider
    selected,     \* equity explorer: the tracts handed to the map
    earlier,      \* direct calls of rank_counties: the calls before this one
    failure       \* direct calls of rank_counties: the exception of this one

\* The state of the equity explorer page.
explorer == <<tracts, concentration, equity, normalized_data, index_value,
              weight_error, transport_index, num_tracts, selected>>

\* The caller's record of its direct calls of rank_counties.
ranker == <<earlier, failure>>

vars == <<mode, pc, fetched, df, temp_df, analysis_df, crossed,
          shown, pin, pout, explorer, ranker>>

---------------------------------------------------------------------------
(* Bounds of the model.                                                    *)

\* Largest number of counties in the fetched table.
MaxUnits == 3
\* Largest number of records in a policy table (database or workbook).
MaxPolicyRecords == 2
\* Largest whole Countdown tried on priority_indicator.
MaxCountdown == 4
\* Largest number of census tracts handed to get_equity_geographies.
MaxTracts == 5
\* Largest number of census tracts in the normalized indicator tables.
MaxIndexTracts == 6

\* The equity explorer page before census_equity_explorer has run.
\* No direct call of rank_counties has been made.
NoFailure == [stage |-> "none", error |-> "none"]

RankerIdle ==
    /\ earlier = <<>>
    /\ failure = NoFailure

ExplorerClosed ==
    /\ tracts = <<>>
    /\ concentration = "Low"
    /\ equity = <<>>
    /\ normalized_data = <<>>
    /\ index_value = <<>>
    /\ weight_error = FALSE
    /\ transport_index = <<>>
    /\ num_tracts = 0
    /\ selected = <<>>

---------------------------------------------------------------------------
(* Exact arithmetic standing in for float64.                               *)

Abs(x) == IF x < 0 THEN -x ELSE x

Sgn(x) == IF x < 0 THEN -1 ELSE IF x > 0 THEN 1 ELSE 0

RECURSIVE GCD(_, _)
GCD(a, b) == IF b = 0 THEN a ELSE GCD(b, a % b)

NaN == <<0, 0>>

\* n / d as a double: lowest terms, or NaN (0/0), or a signed infinity (n/0).
Rat(n, d) ==
    IF d = 0 THEN <<Sgn(n), 0>>
    ELSE LET g == GCD(Abs(n), Abs(d))
             s == Sgn(d)
         IN  <<(s * n) \div g, (s * d) \div g>>

R(i) == <<i, 1>>

IsNaN(x) == x = NaN

IsFinite(x) == x[2] # 0

RAdd(x, y) ==
    IF IsFinite(x) /\ IsFinite(y)
    THEN Rat(x[1] * y[2] + y[1] * x[2], x[2] * y[2])
    ELSE IF ~IsFinite(x) /\ ~IsFinite(y) THEN (IF x = y THEN x ELSE NaN)
    ELSE IF IsFinite(x) THEN y ELSE x

RNeg(x) == <<-x[1], x[2]>>

RSub(x, y) == RAdd(x, RNeg(y))

RMul(x, y) ==
    IF IsFinite(x) /\ IsFinite(y)
    THEN Rat(x[1] * y[1], x[2] * y[2])
    ELSE <<Sgn(x[1]) * Sgn(y[1]), 0>>

RDiv(x, y) ==
    IF IsFinite(x) /\ IsFinite(y)
    THEN Rat(x[1] * y[2], x[2] * y[1])
    ELSE IF IsNaN(x) \/ IsNaN(y) \/ (~IsFinite(x) /\ ~IsFinite(y)) THEN NaN
    ELSE IF IsFinite(x) THEN R(0)
    ELSE <<x[1] * (IF y[1] < 0 THEN -1 ELSE 1), 0>>

RAbs(x) == <<Abs(x[1]), x[2]>>

\* x < y and x <= y on doubles: false as soon as one side is NaN.
RLt(x, y) ==
    /\ ~IsNaN(x) /\ ~IsNaN(y)
    /\ IF IsFinite(x) /\ IsFinite(y) THEN x[1] * y[2] < y[1] * x[2]
       ELSE IF ~IsFinite(x) /\ ~IsFinite(y) THEN x[1] < y[1]
       ELSE IF IsFinite(x) THEN y[1] > 0 ELSE x[1] < 0

RLe(x, y) == ~IsNaN(x) /\ ~IsNaN(y) /\ ~RLt(y, x)

\* Sum of a sequence of doubles, NaN skipped (pandas sum, skipna=True).
RECURSIVE RSumSkipNa(_)
RSumSkipNa(s) ==
    IF s = <<>> THEN R(0)
    ELSE IF IsNaN(Head(s)) THEN RSumSkipNa(Tail(s))
    ELSE RAdd(Head(s), RSumSkipNa(Tail(s)))

\* Product of a sequence of doubles, NaN skipped (pandas product).
RECURSIVE RProdSkipNa(_)
RProdSkipNa(s) ==
    IF s = <<>> THEN R(1)
    ELSE IF IsNaN(Head(s)) THEN RProdSkipNa(Tail(s))
    ELSE RMul(Head(s), RProdSkipNa(Tail(s)))

\* Largest element of a sequence of doubles, NaN skipped; NaN if none is left
\* (pandas max, numpy nanmax).
RECURSIVE RMaxSkipNa(_)
RMaxSkipNa(s) ==
    IF s = <<>> THEN NaN
    ELSE LET m == RMaxSkipNa(Tail(s))
         IN  IF IsNaN(Head(s)) THEN m
             ELSE IF IsNaN(m) THEN Head(s)
             ELSE IF RLt(m, Head(s)) THEN Head(s) ELSE m

\* Mean of a sequence of doubles, NaN skipped (pandas mean).
RMeanSkipNa(s) ==
    LET kept == SelectSeq(s, LAMBDA v : ~IsNaN(v))
    IN  RDiv(RSumSkipNa(kept), R(Len(kept)))

---------------------------------------------------------------------------
(* Column names, as the source spells them.                                *)

COUNTY_ID == "county_id"
HOME_OWNERSHIP == "Home Ownership (%)"
NON_HOME_OWNERSHIP == "Non-Home Ownership (%)"
POVERTY == "Population Below Poverty Line (%)"
UNEMPLOYMENT == "Unemployment Rate (%)"
BURDENED == "Burdened Households (%)"
SINGLE_PARENT == "Single Parent Households (%)"
POPULATION == "Resident Population (Thousands of Persons)"
INEQUALITY == "Income Inequality (Ratio)"
SNAP == "SNAP Benefits Recipients (Persons)"
POP_POVERTY == "Pop Below Poverty Level"
POP_UNEMPLOYED == "Pop Unemployed"
NUM_BURDENED == "Num Burdened Households"
NUM_SINGLE_PARENT == "Num Single Parent Households"
NON_HOME_POP == "Non-Home Ownership Pop"
POLICY_VALUE == "Policy Value"
COUNTDOWN == "Countdown"
CROSSED == "Crossed"
MEAN == "Mean"
RELATIVE_RISK == "Relative Risk"
RANK == "Rank"

---------------------------------------------------------------------------
(* DataFrame operations.                                                   *)

EmptyFrame == [cols |-> {}, rows |-> <<>>]

NRows(t) == Len(t.rows)

\* df[c] as the sequence of its values, in row order.
Column(t, c) == [i \in 1..NRows(t) |-> t.rows[i].cells[c]]

\* df[c] = vals (a new column, or an existing one overwritten).
SetColumn(t, c, vals) ==
    [cols |-> t.cols \cup {c},
     rows |-> [i \in 1..NRows(t) |->
                 [name  |-> t.rows[i].name,
                  cells |-> [k \in t.cols \cup {c} |->
                               IF k = c THEN vals[i] ELSE t.rows[i].cells[k]]]]]

\* df.drop(cs, axis=1)
Drop(t, cs) ==
    [cols |-> t.cols \ cs,
     rows |-> [i \in 1..NRows(t) |->
                 [name  |-> t.rows[i].name,
                  cells |-> [k \in t.cols \ cs |-> t.rows[i].cells[k]]]]]

\* The values of one row over a set of columns, as a sequence (in some order).
RECURSIVE CellsOf(_, _)
CellsOf(cells, cs) ==
    IF cs = {} THEN <<>>
    ELSE LET c == CHOOSE k \in cs : TRUE
         IN  <<cells[c]>> \o CellsOf(cells, cs \ {c})

\* df.sum(axis=1): the row-wise sum over every column.
RowSum(t) == [i \in 1..NRows(t) |-> RSumSkipNa(CellsOf(t.rows[i].cells, t.cols))]

\* df.mean(axis=1): the row-wise mean over every column.
RowMean(t) == [i \in 1..NRows(t) |-> RMeanSkipNa(CellsOf(t.rows[i].cells, t.cols))]

\* A scaler that divides by the column's sum of absolute values instead of
\* its largest one (the difference C3 is sensitive to).
MaxAbsScaleBySum(vals) ==
    LET m     == RSumSkipNa([i \in DOMAIN vals |-> RAbs(vals[i])])
        scale == IF m = R(0) THEN R(1) ELSE m
    IN  [i \in DOMAIN vals |-> RDiv(vals[i], scale)]

\* A scaler without sklearn's replacement of a zero scale by 1 (the
\* difference C4 is sensitive to).
MaxAbsScaleUnguarded(vals) ==
    LET m == RMaxSkipNa([i \in DOMAIN vals |-> RAbs(vals[i])])
    IN  [i \in DOMAIN vals |-> RDiv(vals[i], m)]

\* sklearn.preprocessing.MaxAbsScaler on one column: x / max|x|, with a zero
\* scale replaced by 1.
MaxAbsScale(vals) ==
    LET m     == RMaxSkipNa([i \in DOMAIN vals |-> RAbs(vals[i])])
        scale == IF m = R(0) THEN R(1) ELSE m
    IN  [i \in DOMAIN vals |-> RDiv(vals[i], scale)]

\* MaxAbsScaler().fit_transform(df), rebuilt as a frame on df's index and columns.
fit_transform(t) ==
    [cols |-> t.cols,
     rows |-> [i \in 1..NRows(t) |->
                 [name  |-> t.rows[i].name,
                  cells |-> [k \in t.cols |-> MaxAbsScale(Column(t, k))[i]]]]]

---------------------------------------------------------------------------
(* The pure functions of run.py.                                           *)

clean_data(t) ==
    Drop(SetColumn(t, NON_HOME_OWNERSHIP,
                   [i \in 1..NRows(t) |->
                      RSub(R(100), t.rows[i].cells[HOME_OWNERSHIP])]),
         {HOME_OWNERSHIP})

\* A conversion that forgets the population is given in thousands (the
\* difference C5 is sensitive to).
percent_to_population_in_thousands(feature, name, t) ==
    SetColumn(t, name,
              [i \in 1..NRows(t) |->
                 RMul(RDiv(t.rows[i].cells[feature], R(100)),
                      t.rows[i].cells[POPULATION])])

percent_to_population(feature, name, t) ==
    SetColumn(t, name,
              [i \in 1..NRows(t) |->
                 RMul(RMul(RDiv(t.rows[i].cells[feature], R(100)),
                           t.rows[i].cells[POPULATION]),
                      R(1000))])

\* Lines 119-123 of normalize: the five conversions, written into the frame
\* the caller passed.
normalize_conversions(t) ==
    percent_to_population(NON_HOME_OWNERSHIP, NON_HOME_POP,
      percent_to_population(SINGLE_PARENT, NUM_SINGLE_PARENT,
        percent_to_population(BURDENED, NUM_BURDENED,
          percent_to_population(UNEMPLOYMENT, POP_UNEMPLOYED,
            percent_to_population(POVERTY, POP_POVERTY, t)))))

\* normalize without lines 125-126: the policy columns stay in the frame
\* that is scaled (the difference C28 is sensitive to).
normalize_drops_keeping_policy(t) ==
    Drop(t, {POVERTY, UNEMPLOYMENT, BURDENED, SINGLE_PARENT,
             NON_HOME_OWNERSHIP, POPULATION})

\* Lines 125-134 of normalize: the columns taken out before scaling.
normalize_drops(t) ==
    LET d == IF POLICY_VALUE \in t.cols \/ COUNTDOWN \in t.cols
             THEN Drop(t, {POLICY_VALUE, COUNTDOWN}) ELSE t
    IN  Drop(d, {POVERTY, UNEMPLOYMENT, BURDENED, SINGLE_PARENT,
                 NON_HOME_OWNERSHIP, POPULATION})

normalize(t) == fit_transform(normalize_drops(normalize_conversions(t)))

normalize_column(t, col) == SetColumn(t, col, MaxAbsScale(Column(t, col)))

\* '_X_'.join(columns)
RECURSIVE JoinX(_)
JoinX(columns) ==
    IF Len(columns) = 1 THEN columns[1]
    ELSE columns[1] \o "_X_" \o JoinX(Tail(columns))

\* A crossing in which the first listed column counts twice (the difference
\* C25 is sensitive to).
cross_first_twice(columns, t) ==
    [name   |-> JoinX(columns),
     values |-> [i \in 1..NRows(t) |->
                   RAbs(RMul(t.rows[i].cells[columns[1]],
                             RProdSkipNa([k \in 1..Len(columns) |->
                                            t.rows[i].cells[columns[k]]])))]]

\* cross: the named series |product of the listed columns|.
cross(columns, t) ==
    [name   |-> JoinX(columns),
     values |-> [i \in 1..NRows(t) |->
                   RAbs(RProdSkipNa([k \in 1..Len(columns) |->
                                       t.rows[i].cells[columns[k]]]))]]

\* itertools.combinations(s, r), in its order.
RECURSIVE Combinations(_, _)
Combinations(s, r) ==
    IF r = 0 THEN << <<>> >>
    ELSE IF Len(s) < r THEN <<>>
    ELSE LET with == Combinations(Tail(s), r - 1)
         IN  [k \in 1..Len(with) |-> <<Head(s)>> \o with[k]]
             \o Combinations(Tail(s), r)

CrossCols == <<POP_POVERTY, POP_UNEMPLOYED, INEQUALITY, NON_HOME_POP,
               NUM_BURDENED, NUM_SINGLE_PARENT>>

\* The generator run over range(1, 3): single columns as well as pairs.
all_combinations_with_singles ==
    Combinations(CrossCols, 1) \o Combinations(CrossCols, 2)

\* for r in range(2, 3): all_combinations += combinations(cols, r)
all_combinations == Combinations(CrossCols, 2)

\* cross_features: one column per combination, then the row-wise 'Mean'.
cross_features(t) ==
    LET new_cols == [k \in 1..Len(all_combinations) |->
                       cross(all_combinations[k], t)]
        names    == {new_cols[k].name : k \in 1..Len(new_cols)}
        pairs    == [cols |-> names,
                     rows |-> [i \in 1..NRows(t) |->
                                 [name  |-> t.rows[i].name,
                                  cells |-> [n \in names |->
                                     new_cols[CHOOSE k \in 1..Len(new_cols) :
                                                new_cols[k].name = n].values[i]]]]]
    IN  SetColumn(pairs, MEAN, RowMean(pairs))

\* A priority score coef / sqrt(rad), or the exception the call raised.
Score(coef, rad) == [coef |-> coef, rad |-> rad, err |-> "none"]

Raised(e) == [coef |-> NaN, rad |-> R(1), err |-> e]

\* priority_indicator without the "time_left < 1" floor (the difference C7
\* is sensitive to).
priority_indicator_unfloored(socioeconomic_index, policy_index, time_left) ==
    LET n == RMul(socioeconomic_index, RSub(R(1), policy_index))
    IN  IF IsNaN(time_left) THEN Score(NaN, R(1))
        ELSE IF RLt(time_left, R(0)) THEN Raised("ValueError")
        ELSE IF time_left = R(0) THEN Raised("ZeroDivisionError")
        ELSE Score(n, time_left)

\* priority_indicator multiplying by sqrt(time_left) instead of dividing
\* (the difference C8 is sensitive to): n * sqrt(t) = n * t / sqrt(t).
priority_indicator_times_sqrt(socioeconomic_index, policy_index, time_left) ==
    LET t == IF RLt(time_left, R(1)) THEN R(1) ELSE time_left
        n == RMul(socioeconomic_index, RSub(R(1), policy_index))
    IN  IF IsNaN(t) THEN Score(NaN, R(1))
        ELSE Score(RMul(n, t), t)

priority_indicator(socioeconomic_index, policy_index, time_left) ==
    LET t == IF RLt(time_left, R(1)) THEN R(1) ELSE time_left
        n == RMul(socioeconomic_index, RSub(R(1), policy_index))
    IN  IF IsNaN(t) THEN Score(NaN, R(1))
        ELSE IF RLt(t, R(0)) THEN Raised("ValueError")
        ELSE IF t = R(0) THEN Raised("ZeroDivisionError")
        ELSE Score(n, t)

\* The order of two priority scores as real numbers (false against NaN).
PIsNaN(a) == IsNaN(a.coef)

\* a < b for scores coef / sqrt(rad): by sign, then by the square of their
\* quotient against 1.
PLt(a, b) ==
    /\ ~PIsNaN(a) /\ ~PIsNaN(b)
    /\ LET sa == Sgn(a.coef[1])
           sb == Sgn(b.coef[1])
           r  == RDiv(a.coef, b.coef)
           q  == RMul(RMul(r, r), RDiv(b.rad, a.rad))
       IN  IF sa # sb THEN sa < sb
           ELSE IF sa = 0 THEN FALSE
           ELSE IF ~IsFinite(a.coef) \/ ~IsFinite(b.coef) THEN RLt(a.coef, b.coef)
           ELSE IF sa > 0 THEN RLt(q, R(1)) ELSE RLt(R(1), q)

PEq(a, b) == ~PIsNaN(a) /\ ~PIsNaN(b) /\ ~PLt(a, b) /\ ~PLt(b, a)

---------------------------------------------------------------------------
(* Inputs: the fetched county table and the policy tables.                 *)

\* 'County Name' of the county with county_id i, in alphabetical order.
Names == <<"adams", "boulder", "clear creek", "denver", "eagle">>

NameIndex(n) == CHOOSE i \in 1..Len(Names) : Names[i] = n

RawCols == {COUNTY_ID, HOME_OWNERSHIP, POVERTY, UNEMPLOYMENT, BURDENED,
            SINGLE_PARENT, POPULATION, INEQUALITY, SNAP}

\* One county's indicators as the database holds them (percentages in 0..100,
\* population in thousands, a ratio, a head count).
Profile(home, pov, unemp, burd, single, pop, ineq, snap) ==
    [k \in RawCols \ {COUNTY_ID} |->
       IF k = HOME_OWNERSHIP THEN R(home)
       ELSE IF k = POVERTY THEN R(pov)
       ELSE IF k = UNEMPLOYMENT THEN R(unemp)
       ELSE IF k = BURDENED THEN R(burd)
       ELSE IF k = SINGLE_PARENT THEN R(single)
       ELSE IF k = POPULATION THEN R(pop)
       ELSE IF k = INEQUALITY THEN R(ineq)
       ELSE R(snap)]

\* The rows tried: a county with every indicator at zero; one with only its
\* poverty and SNAP counts above zero; two with every indicator set.  Their
\* counts below the poverty line are 0, 1000, 2000 and 4000.
CountyProfiles ==
    { Profile(100,   0,  0,   0,   0, 0, 0,    0),
      Profile(100, 100,  0,   0,   0, 1, 0, 1000),
      Profile( 50, 100, 50, 100,  50, 2, 4, 2000),
      Profile(  0, 100,  0,  50, 100, 4, 2, 4000) }

FetchedRow(i, p) ==
    [name  |-> Names[i],
     cells |-> [k \in RawCols |-> IF k = COUNTY_ID THEN R(i) ELSE p[k]]]

\* load_all_data / filter_state / filter_counties: 1..MaxUnits counties.
FetchedTables ==
    UNION { { [cols |-> RawCols, rows |-> [i \in 1..n |-> FetchedRow(i, f[i])]]
              : f \in [1..n -> CountyProfiles] }
            : n \in 1..MaxUnits }

\* The (Policy Value, Countdown) pairs tried: no policy and an expired
\* countdown; a policy worth one half with four periods left.
PolicySettings == { [pv |-> R(0), cd |-> R(0)], [pv |-> Rat(1, 2), cd |-> R(4)] }

\* One policy record: the county it is about (its county_id in the database,
\* its 'County Name' in the workbook), a Policy Value and a Countdown.
PolicyRecords ==
    { [unit |-> u, pv |-> ps.pv, cd |-> ps.cd] :
        u \in 1..MaxUnits, ps \in PolicySettings }

\* queries.policy_query() / the workbook's 'Analysis Data' sheet.
PolicyTables == UNION { [1..n -> PolicyRecords] : n \in 0..MaxPolicyRecords }

---------------------------------------------------------------------------
(* get_existing_policies.                                                  *)

MatchesOn(on, row, rec) ==
    IF on = COUNTY_ID THEN row.cells[COUNTY_ID] = R(rec.unit)
    ELSE row.name = Names[rec.unit]

\* One row of df joined with every record of the policy table that matches it.
RECURSIVE MergeRow(_, _, _)
MergeRow(on, row, policy) ==
    IF policy = <<>> THEN <<>>
    ELSE (IF MatchesOn(on, row, Head(policy))
          THEN << [name  |-> row.name,
                   cells |-> [k \in DOMAIN row.cells \cup {POLICY_VALUE, COUNTDOWN} |->
                                IF k = POLICY_VALUE THEN Head(policy).pv
                                ELSE IF k = COUNTDOWN THEN Head(policy).cd
                                ELSE row.cells[k]]] >>
          ELSE <<>>)
         \o MergeRow(on, row, Tail(policy))

RECURSIVE MergeRows(_, _, _)
MergeRows(on, rows, policy) ==
    IF rows = <<>> THEN <<>>
    ELSE MergeRow(on, Head(rows), policy) \o MergeRows(on, Tail(rows), policy)

\* df.merge(policy_df, on=...): the inner join, in df's row order.
merge(t, policy, on) ==
    [cols |-> t.cols \cup {POLICY_VALUE, COUNTDOWN},
     rows |-> MergeRows(on, t.rows, policy)]

\* not temp_df.empty and len(df) == len(temp_df)
JoinAccepted(t, joined) == NRows(joined) > 0 /\ NRows(t) = NRows(joined)

\* Lines 210-212 and the branch at 212/220: the database join.
QueryPolicies ==
    /\ pc = "fetched"
    /\ \E t \in {merge(df, p, COUNTY_ID) : p \in PolicyTables} :
             IF JoinAccepted(df, t)
             THEN /\ pc' = "ask"
                  /\ temp_df' = t
             ELSE /\ pc' = "workbook"
                  /\ temp_df' = EmptyFrame
    /\ UNCHANGED <<mode, fetched, df, analysis_df, crossed, shown, pin, pout,
                   explorer, ranker>>

\* Lines 213-219: the user takes the database's policy data.
UsePolicies ==
    /\ pc = "ask"
    /\ pc' = "joined"
    /\ df' = temp_df
    /\ temp_df' = EmptyFrame
    /\ UNCHANGED <<mode, fetched, analysis_df, crossed, shown, pin, pout,
                   explorer, ranker>>

\* Lines 213-219 then 229: the user declines, df is returned as it came.
DeclinePolicies ==
    /\ pc = "ask"
    /\ pc' = "joined"
    /\ temp_df' = EmptyFrame
    /\ UNCHANGED <<mode, fetched, df, analysis_df, crossed, shown, pin, pout,
                   explorer, ranker>>

\* Lines 220-229: the workbook join, and df itself when that fails too.
ReadWorkbook ==
    /\ pc = "workbook"
    /\ pc' = "joined"
    /\ \E t \in {merge(df, p, "County Name") : p \in PolicyTables} :
             IF JoinAccepted(df, t)
             THEN df' = t
             ELSE df' = df
    /\ UNCHANGED <<mode, fetched, temp_df, analysis_df, crossed, shown, pin, pout,
                   explorer, ranker>>

\* clean_data, called by get_multiple_counties / get_state_data.
CleanData ==
    /\ pc = "joined"
    /\ pc' = "clean"
    /\ df' = clean_data(df)
    /\ UNCHANGED <<mode, fetched, temp_df, analysis_df, crossed, shown, pin, pout,
                   explorer, ranker>>

---------------------------------------------------------------------------
(* rank_counties, statement by statement.                                  *)

\* Lines 169-170: county_id is dropped from the caller's frame in place, and
\* normalize writes its five count columns into that same frame.
Normalize ==
    /\ pc = "clean"
    /\ pc' = "normalized"
    /\ df' = normalize_conversions(Drop(df, {COUNTY_ID}))
    /\ analysis_df' = normalize(Drop(df, {COUNTY_ID}))
    /\ UNCHANGED <<mode, fetched, temp_df, crossed, shown, pin, pout,
                   explorer, ranker>>

\* Line 172.
CrossFeatures ==
    /\ pc = "normalized"
    /\ pc' = "crossed"
    /\ crossed' = cross_features(analysis_df)
    /\ UNCHANGED <<mode, fetched, df, temp_df, analysis_df, shown, pin, pout,
                   explorer, ranker>>

\* Lines 173-178 without the call of normalize_column on 'Crossed' (the
\* difference C2 is sensitive to).
relative_risk_unscaled_crossed(t, crossed_df) ==
    LET a1      == SetColumn(t, CROSSED, Column(crossed_df, MEAN))
        a3      == SetColumn(a1, RELATIVE_RISK, RowSum(a1))
        max_sum == RMaxSkipNa(Column(a3, RELATIVE_RISK))
    IN  SetColumn(a3, RELATIVE_RISK,
                  [i \in 1..NRows(a3) |->
                     RDiv(a3.rows[i].cells[RELATIVE_RISK], max_sum)])

\* Lines 173-178.
relative_risk(t, crossed_df) ==
    LET a1      == SetColumn(t, CROSSED, Column(crossed_df, MEAN))
        a2      == normalize_column(a1, CROSSED)
        a3      == SetColumn(a2, RELATIVE_RISK, RowSum(a2))
        max_sum == RMaxSkipNa(Column(a3, RELATIVE_RISK))
    IN  SetColumn(a3, RELATIVE_RISK,
                  [i \in 1..NRows(a3) |->
                     RDiv(a3.rows[i].cells[RELATIVE_RISK], max_sum)])

Aggregate ==
    /\ pc = "crossed"
    /\ pc' = "scored"
    /\ analysis_df' = relative_risk(analysis_df, crossed)
    /\ UNCHANGED <<mode, fetched, df, temp_df, crossed, shown, pin, pout,
                   explorer, ranker>>

\* Lines 180-185: the policy columns and 'Rank', when df carries 'Policy Value'.
with_rank(t, caller_df) ==
    IF POLICY_VALUE \in caller_df.cols
    THEN LET a1 == SetColumn(t, POLICY_VALUE, Column(caller_df, POLICY_VALUE))
             a2 == SetColumn(a1, COUNTDOWN, Column(caller_df, COUNTDOWN))
         IN  SetColumn(a2, RANK,
                       [i \in 1..NRows(a2) |->
                          priority_indicator(a2.rows[i].cells[RELATIVE_RISK],
                                             a2.rows[i].cells[POLICY_VALUE],
                                             a2.rows[i].cells[COUNTDOWN])])
    ELSE t

RankRaised(t) ==
    /\ RANK \in t.cols
    /\ \E i \in 1..NRows(t) : t.rows[i].cells[RANK].err # "none"

Prioritize ==
    /\ pc = "scored"
    /\ LET r == with_rank(analysis_df, df)
       IN  IF RankRaised(r)
           THEN pc' = "aborted" /\ UNCHANGED analysis_df
           ELSE pc' = "ranked" /\ analysis_df' = r
    /\ UNCHANGED <<mode, fetched, df, temp_df, crossed, shown, pin, pout,
                   explorer, ranker>>

---------------------------------------------------------------------------
(* Presentation of the ranking.                                            *)

Perms(n) == {f \in [1..n -> 1..n] : \A i, j \in 1..n : i # j => f[i] # f[j]}

\* The sort key's order: 'Rank' holds priority scores, 'Relative Risk' floats.
KeyIsNa(col, v) == IF col = RANK THEN PIsNaN(v) ELSE IsNaN(v)

KeyLt(col, a, b) == IF col = RANK THEN PLt(a, b) ELSE RLt(a, b)

\* df.sort_values(col, ascending=False): the frames the call may produce.
\* NaN keys go last; pandas' default sort is not stable, so rows with equal
\* keys may come out in any order.
sort_values_desc(t, col) ==
    LET n  == NRows(t)
        ok == {f \in Perms(n) :
                 \A i \in 1..(n - 1) :
                    LET a == t.rows[f[i]].cells[col]
                        b == t.rows[f[i + 1]].cells[col]
                    IN  /\ KeyIsNa(col, a) => KeyIsNa(col, b)
                        /\ (~KeyIsNa(col, a) /\ ~KeyIsNa(col, b)) => ~KeyLt(col, a, b)}
    IN  {[cols |-> t.cols, rows |-> [i \in 1..n |-> t.rows[f[i]]]] : f \in ok}

\* print_summary (script mode, tasks 2-4).
print_summary(t) ==
    IF RANK \in t.cols THEN sort_values_desc(t, RANK)
    ELSE IF NRows(t) > 1 THEN sort_values_desc(t, RELATIVE_RISK)
    ELSE {t}

\* run_UI: rank_counties(...).sort_values(by='Relative Risk', ascending=False).
run_UI(t) == sort_values_desc(t, RELATIVE_RISK)

PrintSummary ==
    /\ pc = "ranked"
    /\ mode = "SCRIPT"
    /\ pc' = "shown"
    /\ shown' \in print_summary(analysis_df)
    /\ UNCHANGED <<mode, fetched, df, temp_df, analysis_df, crossed, pin, pout,
                   explorer, ranker>>

RunUI ==
    /\ pc = "ranked"
    /\ mode = "UI"
    /\ pc' = "shown"
    /\ shown' \in run_UI(analysis_df)
    /\ UNCHANGED <<mode, fetched, df, temp_df, analysis_df, crossed, pin, pout,
                   explorer, ranker>>

---------------------------------------------------------------------------
(* The program.                                                            *)

Init ==
    /\ mode \in {"SCRIPT", "UI"}
    /\ pc = "fetched"
    /\ fetched \in FetchedTables
    /\ df = fetched
    /\ temp_df = EmptyFrame
    /\ analysis_df = EmptyFrame
    /\ crossed = EmptyFrame
    /\ shown = EmptyFrame
    /\ pin = <<>>
    /\ pout = <<>>
    /\ ExplorerClosed
    /\ RankerIdle

Next ==
    \/ QueryPolicies
    \/ UsePolicies
    \/ DeclinePolicies
    \/ ReadWorkbook
    \/ CleanData
    \/ Normalize
    \/ CrossFeatures
    \/ Aggregate
    \/ Prioritize
    \/ PrintSummary
    \/ RunUI

Spec == Init /\ [][Next]_vars

---------------------------------------------------------------------------
(* priority_indicator on its own: one call per Countdown, the other two    *)
(* arguments held fixed.                                                   *)

RiskValues == {R(0), Rat(1, 4), Rat(1, 2), R(1)}

PolicyIndexValues == {R(0), Rat(1, 2), R(1)}

CountdownValues == {R(0), Rat(1, 2)} \cup {R(k) : k \in 1..MaxCountdown}

InitPriority ==
    /\ mode = "SCRIPT"
    /\ pc = "call"
    /\ fetched = EmptyFrame
    /\ df = EmptyFrame
    /\ temp_df = EmptyFrame
    /\ analysis_df = EmptyFrame
    /\ crossed = EmptyFrame
    /\ shown = EmptyFrame
    /\ pin \in [si : RiskValues, pi : PolicyIndexValues,
                c1 : CountdownValues, c2 : CountdownValues]
    /\ pout = <<>>
    /\ ExplorerClosed
    /\ RankerIdle

CallPriorityIndicator ==
    /\ pc = "call"
    /\ pc' = "returned"
    /\ pout' = [s1 |-> priority_indicator(pin.si, pin.pi, pin.c1),
                s2 |-> priority_indicator(pin.si, pin.pi, pin.c2)]
    /\ UNCHANGED <<mode, fetched, df, temp_df, analysis_df, crossed,
                   shown, pin, explorer, ranker>>

NextPriority == CallPriorityIndicator

SpecPriority == InitPriority /\ [][NextPriority]_vars

---------------------------------------------------------------------------
(* What the claims are stated in: the quantities of the specification,     *)
(* computed from the caller's frame without the pipeline's tables.         *)

\* The columns rank_counties scales: the five counts and the two indicators
\* that are no percentage of the population.
ScaledCols == {POP_POVERTY, POP_UNEMPLOYED, NUM_BURDENED, NUM_SINGLE_PARENT,
               NON_HOME_POP, INEQUALITY, SNAP}

CoreCols == {CrossCols[k] : k \in 1..Len(CrossCols)}

Scored == pc \in {"scored", "ranked", "shown"}

Units(t) == 1..NRows(t)

\* A sequence given by a rule, written out element by element.
Concrete(s) == <<>> \o s

\* Sum of val[x] over the set S.
SumOver(S, val) == RSumSkipNa(CellsOf(val, S))

\* The largest element of a non-empty sequence of numbers.
Largest(s) ==
    CHOOSE m \in {s[i] : i \in DOMAIN s} : \A i \in DOMAIN s : RLe(s[i], m)

\* x / m, and 0 when m is 0.
Over(x, m) == IF m = R(0) THEN R(0) ELSE RDiv(x, m)

\* Column c of frame t, each value divided by the column's largest absolute
\* value (left at 0 when that is 0).
NormalizedColumn(t, c) ==
    LET m == Largest(Concrete([i \in Units(t) |-> RAbs(t.rows[i].cells[c])]))
    IN  Concrete([i \in Units(t) |-> Over(t.rows[i].cells[c], m)])

\* The unordered pairs of core columns, by their places in CrossCols.
CorePairs == {p \in (1..Len(CrossCols)) \X (1..Len(CrossCols)) : p[1] < p[2]}

\* Per unit, the mean of the products |a * b| over the pairs of normalized
\* core columns.
CrossedMeans(t) ==
    LET core == Concrete([k \in 1..Len(CrossCols) |-> NormalizedColumn(t, CrossCols[k])])
    IN  Concrete([i \in Units(t) |->
           RDiv(SumOver(CorePairs,
                        [p \in CorePairs |-> RAbs(RMul(core[p[1]][i], core[p[2]][i]))]),
                R(Cardinality(CorePairs)))])

\* Per unit, the raw score: its normalized columns plus its re-scaled Crossed
\* value.
RawScores(t) ==
    LET norm  == [c \in ScaledCols |-> NormalizedColumn(t, c)]
        means == CrossedMeans(t)
        top   == Largest(means)
    IN  Concrete([i \in Units(t) |->
           RAdd(SumOver(ScaledCols, [c \in ScaledCols |-> norm[c][i]]),
                Over(means[i], top))])

RiskOf(t, i) == t.rows[i].cells[RELATIVE_RISK]

---------------------------------------------------------------------------
(* C1.  For every non-empty unit set, every unit's Relative Risk lies in   *)
(* [0, 1] and the unit with the largest row-wise sum of normalized columns *)
(* has Relative Risk exactly 1.                                            *)
C1_RiskInUnitInterval ==
    Scored =>
       LET raw == RawScores(df)
       IN  \A i \in Units(analysis_df) :
              /\ RLe(R(0), RiskOf(analysis_df, i))
              /\ RLe(RiskOf(analysis_df, i), R(1))
              /\ raw[i] = Largest(raw) => RiskOf(analysis_df, i) = R(1)

(* C2.  The raw score of a unit is the row-wise sum of its max-abs         *)
(* normalized columns plus its Crossed value (the mean of the pair         *)
(* products over the batch, divided by the largest such mean), and its     *)
(* Relative Risk is that raw score divided by the largest raw score.       *)
C2_RiskIsRawOverMax ==
    pc = "scored" =>
       LET raw == RawScores(df)
       IN  \A i \in Units(analysis_df) :
              RiskOf(analysis_df, i) = RDiv(raw[i], Largest(raw))

C2_Witness ==
    /\ pc = "scored"
    /\ NRows(analysis_df) = 3
    /\ \E i, j \in Units(analysis_df) :
          /\ RiskOf(analysis_df, i) = R(1)
          /\ RLt(R(0), RiskOf(analysis_df, j))
          /\ RLt(RiskOf(analysis_df, j), R(1))
          /\ RLt(R(0), CrossedMeans(df)[j])
          /\ RLt(CrossedMeans(df)[j], CrossedMeans(df)[i])

(* C3.  normalize divides every remaining numeric column by the column's   *)
(* largest absolute value over the current unit set, so every output lies  *)
(* in [-1, 1]; raw values 1000, 2000, 4000 over three units come out as    *)
(* 1/4, 1/2 and 1.                                                         *)
C3_NormalizeByMaxAbs ==
    pc = "normalized" =>
       \A c \in analysis_df.cols :
          LET raw == Concrete(Column(df, c))
              out == Concrete(Column(analysis_df, c))
              m   == Largest(Concrete([i \in Units(df) |-> RAbs(raw[i])]))
          IN  /\ \A i \in Units(df) :
                    /\ RLe(R(-1), out[i]) /\ RLe(out[i], R(1))
                    /\ m # R(0) => out[i] = RDiv(raw[i], m)
              /\ raw = <<R(1000), R(2000), R(4000)>>
                    => out = <<Rat(1, 4), Rat(1, 2), R(1)>>

C3_Witness ==
    /\ pc = "normalized"
    /\ Concrete(Column(df, POP_POVERTY)) = <<R(1000), R(2000), R(4000)>>
    /\ Concrete(Column(analysis_df, POP_POVERTY)) = <<Rat(1, 4), Rat(1, 2), R(1)>>

(* C4.  A column whose largest absolute value over the unit set is zero is *)
(* scaled to an all-zero column (by normalize, and by normalize_column for *)
(* 'Crossed'), no division error is raised and the ranking goes on.        *)
AllZero(col) == \A i \in DOMAIN col : col[i] = R(0)

C4_ZeroColumnStaysZero ==
    /\ pc # "aborted"
    /\ pc \in {"normalized", "crossed", "scored", "ranked", "shown"} =>
          \A c \in ScaledCols :
             AllZero(Column(df, c)) => AllZero(Column(analysis_df, c))
    /\ Scored =>
          (AllZero(Column(crossed, MEAN)) => AllZero(Column(analysis_df, CROSSED)))

C4_Witness ==
    /\ pc = "ranked"
    /\ AllZero(Column(df, POP_UNEMPLOYED))
    /\ AllZero(Column(analysis_df, POP_UNEMPLOYED))
    /\ ~AllZero(Column(df, POP_POVERTY))
    /\ \E i \in Units(analysis_df) : RiskOf(analysis_df, i) = R(1)

(* C5.  Before scaling, each of the five percent-of-population indicators  *)
(* becomes an absolute count by the one formula percent / 100 x            *)
(* population (thousands) x 1000, and the percentage columns and the       *)
(* population column are not in the table that is scaled.                  *)
PercentCounts ==
    { <<POVERTY, POP_POVERTY>>, <<UNEMPLOYMENT, POP_UNEMPLOYED>>,
      <<BURDENED, NUM_BURDENED>>, <<SINGLE_PARENT, NUM_SINGLE_PARENT>>,
      <<NON_HOME_OWNERSHIP, NON_HOME_POP>> }

C5_PercentToCounts ==
    pc = "normalized" =>
       /\ \A pq \in PercentCounts :
             /\ pq[2] \in analysis_df.cols
             /\ pq[1] \notin analysis_df.cols
             /\ \A i \in Units(df) :
                   RMul(df.rows[i].cells[pq[2]], R(100))
                      = RMul(RMul(df.rows[i].cells[pq[1]],
                                  df.rows[i].cells[POPULATION]), R(1000))
       /\ POPULATION \notin analysis_df.cols

C5_Witness ==
    /\ pc = "normalized"
    /\ \E i \in Units(df) :
          /\ df.rows[i].cells[UNEMPLOYMENT] = R(50)
          /\ df.rows[i].cells[POPULATION] = R(2)
          /\ df.rows[i].cells[POP_UNEMPLOYED] = R(1000)
          /\ df.rows[i].cells[NON_HOME_POP] = R(1000)

(* C6.  cross_features yields exactly the 15 unordered pairs of the six    *)
(* core columns (no column with itself, nothing of order 3), each pair     *)
(* column is |a x b| of the two normalized columns, and 'Mean' is the mean *)
(* of a unit's 15 pair values.                                             *)
PairName(p) == CrossCols[p[1]] \o "_X_" \o CrossCols[p[2]]

C6_FifteenPairs ==
    pc = "crossed" =>
       /\ crossed.cols \ {MEAN} = {PairName(p) : p \in CorePairs}
       /\ Cardinality(crossed.cols \ {MEAN}) = 15
       /\ \A i \in Units(crossed) :
             /\ \A p \in CorePairs :
                   crossed.rows[i].cells[PairName(p)]
                      = RAbs(RMul(analysis_df.rows[i].cells[CrossCols[p[1]]],
                                  analysis_df.rows[i].cells[CrossCols[p[2]]]))
             /\ RMul(crossed.rows[i].cells[MEAN], R(15))
                   = SumOver(CorePairs,
                             [p \in CorePairs |-> crossed.rows[i].cells[PairName(p)]])

C6_Witness ==
    /\ pc = "crossed"
    /\ \E i \in Units(crossed) :
          /\ crossed.rows[i].cells[MEAN] = Rat(8, 15)
          /\ crossed.rows[i].cells[PairName(<<1, 3>>)] = Rat(1, 2)

(* C7.  The priority score is RR x (1 - PolicyValue) / sqrt(max(Countdown, *)
(* 1)): a Countdown below 1, 0 included, scores exactly as Countdown 1     *)
(* does, and no Countdown >= 0 divides by zero.                            *)
ClaimedScore(si, pi, c) ==
    Score(RMul(si, RSub(R(1), pi)), IF RLt(c, R(1)) THEN R(1) ELSE c)

C7_CountdownFlooredAtOne ==
    pc = "returned" =>
       /\ pout.s1.err = "none"
       /\ PEq(pout.s1, ClaimedScore(pin.si, pin.pi, pin.c1))
       /\ (RLt(pin.c1, R(1)) /\ pin.c2 = R(1)) => PEq(pout.s1, pout.s2)

C7_Witness ==
    /\ pc = "returned"
    /\ pin.c1 = R(0) /\ pin.c2 = R(1)
    /\ pin.si = R(1) /\ pin.pi = Rat(1, 2)
    /\ PEq(pout.s1, pout.s2)
    /\ PEq(pout.s1, Score(Rat(1, 2), R(1)))

(* C8.  Holding Relative Risk and Policy Value fixed, the priority score   *)
(* strictly decreases as Countdown increases: score(c1) > score(c2) for    *)
(* all 0 <= c1 < c2.  (As claimed; the code does not do this.)             *)
C8_Original ==
    (pc = "returned" /\ RLt(pin.c1, pin.c2)) => PLt(pout.s2, pout.s1)

(* C8, amended.  The priority score never increases as Countdown           *)
(* increases: score(c1) >= score(c2) for all 0 <= c1 < c2, and             *)
(* score(c1) > score(c2) when c2 > 1 and RR x (1 - PolicyValue) > 0.       *)
C8_NeverIncreasing ==
    (pc = "returned" /\ RLt(pin.c1, pin.c2)) =>
       /\ ~PLt(pout.s1, pout.s2) /\ ~PIsNaN(pout.s1) /\ ~PIsNaN(pout.s2)
       /\ (RLt(R(1), pin.c2) /\ RLt(R(0), RMul(pin.si, RSub(R(1), pin.pi))))
             => PLt(pout.s2, pout.s1)

C8_Witness ==
    /\ pc = "returned"
    /\ pin.c1 = R(2) /\ pin.c2 = R(3)
    /\ pin.si = R(1) /\ pin.pi = R(0)
    /\ PLt(pout.s2, pout.s1)

(* C9.  When the policy adjustment is applied, the ranking shown is in     *)
(* descending order of PriorityScore, ties broken by descending            *)
(* CompositeRiskScore and then by unit name ascending, on the script path  *)
(* and on the UI path.  (As claimed; stated here for the runs in which     *)
(* every score is a number.)                                               *)
InClaimedOrder(a, b) ==
    \/ PLt(b.cells[RANK], a.cells[RANK])
    \/ /\ PEq(a.cells[RANK], b.cells[RANK])
       /\ \/ RLt(b.cells[RELATIVE_RISK], a.cells[RELATIVE_RISK])
          \/ /\ a.cells[RELATIVE_RISK] = b.cells[RELATIVE_RISK]
             /\ NameIndex(a.name) <= NameIndex(b.name)

C9_Original ==
    (/\ pc = "shown"
     /\ RANK \in shown.cols
     /\ \A i \in Units(shown) : ~PIsNaN(shown.rows[i].cells[RANK]))
    => \A i \in 1..(NRows(shown) - 1) :
          InClaimedOrder(shown.rows[i], shown.rows[i + 1])

(* C10.  Whatever the policy table (one with several records for a unit    *)
(* included), if some input unit has no matching record then               *)
(* get_existing_policies returns the units without policy columns, no      *)
(* PriorityScore is computed, the ranking is by CompositeRiskScore alone   *)
(* and the run does not abort.  (As claimed.)  The only frame with policy  *)
(* columns is the inner join, in which a unit has a row exactly when the   *)
(* policy table has a record for it: so policy columns or a 'Rank' must    *)
(* come with a row for every input unit.                                   *)
HasRecord(t, i) ==
    \E k \in Units(t) : t.rows[k].name = fetched.rows[i].name

C10_Original ==
    pc \in {"joined", "clean", "normalized", "crossed", "scored", "ranked",
            "shown", "aborted"}
    => /\ (POLICY_VALUE \in df.cols \/ COUNTDOWN \in df.cols)
             => \A i \in Units(fetched) : HasRecord(df, i)
       /\ RANK \in analysis_df.cols
             => \A i \in Units(fetched) : HasRecord(analysis_df, i)
       /\ pc # "aborted"
       /\ (pc = "shown" /\ RANK \notin shown.cols)
             => \A i \in 1..(NRows(shown) - 1) :
                   ~RLt(RiskOf(shown, i), RiskOf(shown, i + 1))

(* C11.  The output of rank_counties always has the 'Relative Risk'        *)
(* column, and has the 'Rank' and 'Policy Value' columns exactly when the  *)
(* policy adjustment succeeded, that is when the policy join covered       *)
(* every input unit exactly (no duplicates, no gaps); a skipped adjustment *)
(* shows as the shape without those columns.  (As claimed.)                *)
AdjustmentSucceeded ==
    /\ POLICY_VALUE \in df.cols
    /\ [i \in Units(df) |-> df.rows[i].name]
          = [i \in Units(fetched) |-> fetched.rows[i].name]

---------------------------------------------------------------------------
(* The equity explorer: census_equity_explorer's concentration slider and  *)
(* the classifier it calls.  queries.get_equity_geographies is not part of *)
(* the sources at hand; it is modelled here as the design describes it:    *)
(* per indicator a threshold = mean + standard deviation x coefficient     *)
(* over the tracts given, Criterion A, Criterion B and the equity subset.  *)
(* The design lets a value equal to its threshold pass (a tract that is    *)
(* alone has threshold = its own value and passes), so "exceeds" is        *)
(* modelled as "not below"; the standard deviation is the one that is zero *)
(* for a single tract (the population standard deviation).                 *)

\* The two groups of equity indicators (queries.EQUITY_CENSUS_POC_LOW_INCOME
\* and queries.EQUITY_CENSUS_REMAINING_HEADERS).
PEOPLE_OF_COLOR == "People of Color"
LOW_INCOME == "Low-Income"
EQUITY_CENSUS_POC_LOW_INCOME == {PEOPLE_OF_COLOR, LOW_INCOME}
EQUITY_CENSUS_REMAINING_HEADERS ==
    {"Remaining 1", "Remaining 2", "Remaining 3",
     "Remaining 4", "Remaining 5", "Remaining 6"}
EquityIndicators ==
    EQUITY_CENSUS_POC_LOW_INCOME \cup EQUITY_CENSUS_REMAINING_HEADERS

\* The positions of the concentration slider.
ConcentrationOptions == {"Low", "Medium", "High"}

\* The coefficient of each position, with High and Low exchanged.
coeff_reversed ==
    [c \in ConcentrationOptions |->
        CASE c = "Low" -> Rat(3, 2) [] c = "Medium" -> R(1) [] c = "High" -> Rat(1, 2)]

\* The coefficient of each position, with 15 for 1.5.
coeff_high_15 ==
    [c \in ConcentrationOptions |->
        CASE c = "Low" -> Rat(1, 2) [] c = "Medium" -> R(1) [] c = "High" -> R(15)]

\* coeff = {'Low': 0.5, 'Medium': 1, 'High': 1.5}
coeff ==
    [c \in ConcentrationOptions |->
        CASE c = "Low" -> Rat(1, 2) [] c = "Medium" -> R(1) [] c = "High" -> Rat(3, 2)]

\* The values of one indicator over the tracts, in tract order (whole
\* percentages).
IndicatorValues(t, ind) == [i \in 1..Len(t) |-> t[i][ind]]

\* Sum of a sequence of whole numbers.
RECURSIVE Sum(_)
Sum(s) == IF s = <<>> THEN 0 ELSE Head(s) + Sum(Tail(s))

\* Mean of a non-empty sequence of whole numbers.
Mean(s) == Rat(Sum(s), Len(s))

\* Square of the standard deviation of a non-empty sequence of whole
\* numbers: the mean of the squares less the square of the mean, zero for a
\* single value.
Variance(s) ==
    LET n  == Len(s)
        s1 == Sum(s)
        s2 == Sum([i \in 1..n |-> s[i] * s[i]])
    IN  Rat(n * s2 - s1 * s1, n * n)

\* The concentration threshold of an indicator, kept as the three numbers it
\* is made of: threshold = mean + sqrt(variance) * coefficient.
concentration_threshold(t, ind, coefficient) ==
    LET s == Concrete(IndicatorValues(t, ind))
    IN  [mean |-> Mean(s), variance |-> Variance(s), coefficient |-> coefficient]

\* "exceeds", for values strictly above the threshold only.
ExceedsStrictly(v, th) ==
    LET d == RSub(v, th.mean)
        c == th.coefficient
    IN  /\ RLt(R(0), d) \/ (d = R(0) /\ RLt(c, R(0)))
        /\ RLt(RMul(RMul(c, c), th.variance), RMul(d, d))

\* v >= mean + sqrt(variance) * coefficient, for a coefficient >= 0: v is
\* not below the mean and its squared distance to the mean is at least
\* coefficient^2 * variance.
Exceeds(v, th) ==
    LET d == RSub(v, th.mean)
        c == th.coefficient
    IN  /\ RLe(R(0), d)
        /\ RLe(RMul(RMul(c, c), th.variance), RMul(d, d))

\* Criterion A, met by either indicator of the core pair.
criteria_A_either(poc_check, low_income_check) == poc_check \/ low_income_check

\* Criterion A: both indicators of the core pair exceed their thresholds.
criteria_A(poc_check, low_income_check) == poc_check /\ low_income_check

\* Criterion B, with two remaining indicators being enough.
criteria_B_two(low_income_check, remaining_count) ==
    low_income_check /\ remaining_count >= 2

\* Criterion B: Low-Income exceeds its threshold and so do at least three of
\* the six remaining indicators.
criteria_B(low_income_check, remaining_count) ==
    low_income_check /\ remaining_count >= 3

\* The tracts with their checks, flags and count: the full, unfiltered table.
total_census_tracts(t, thresholds) ==
    [i \in 1..Len(t) |->
        LET checks == [ind \in EquityIndicators |->
                          Exceeds(R(t[i][ind]), thresholds[ind])]
            count  == Cardinality({ind \in EQUITY_CENSUS_REMAINING_HEADERS :
                                      checks[ind]})
        IN  [tract       |-> i,
             values      |-> t[i],
             checks      |-> checks,
             remaining   |-> count,
             criteria_A  |-> criteria_A(checks[PEOPLE_OF_COLOR], checks[LOW_INCOME]),
             criteria_B  |-> criteria_B(checks[LOW_INCOME], count)]]

\* The equity subset, keeping the tracts that meet Criterion A only.
equity_only_A(total) == SelectSeq(total, LAMBDA r : r.criteria_A)

\* The equity subset: the tracts that meet Criterion A or Criterion B.
equity_only(total) == SelectSeq(total, LAMBDA r : r.criteria_A \/ r.criteria_B)

\* queries.get_equity_geographies(df, coefficient)
get_equity_geographies(t, coefficient) ==
    LET thresholds == [ind \in EquityIndicators |->
                          concentration_threshold(t, ind, coefficient)] @@ <<>>
        total      == Concrete(total_census_tracts(t, thresholds))
    IN  [equity_df                |-> equity_only(total),
         total_census_tracts      |-> total,
         concentration_thresholds |-> thresholds]

\* One tract of the equity data: its eight indicator values.
EquityTract(poc, low, rem) ==
    [ind \in EquityIndicators |->
        CASE ind = PEOPLE_OF_COLOR -> poc
          [] ind = LOW_INCOME      -> low
          [] ind = "Remaining 1"   -> rem[1]
          [] ind = "Remaining 2"   -> rem[2]
          [] ind = "Remaining 3"   -> rem[3]
          [] ind = "Remaining 4"   -> rem[4]
          [] ind = "Remaining 5"   -> rem[5]
          [] ind = "Remaining 6"   -> rem[6]]

\* The tracts tried: none of the factors; people of color with three of the
\* remaining six but no low income; the core pair alone; low income with
\* two and with three of the remaining six; and tracts at the top of all
\* six, without and with people of color.
EquityTracts ==
    << EquityTract(0, 0, <<0, 0, 0, 0, 0, 0>>),
       EquityTract(1, 0, <<0, 0, 0, 1, 1, 1>>),
       EquityTract(1, 1, <<0, 0, 0, 0, 0, 0>>),
       EquityTract(0, 1, <<1, 1, 0, 0, 0, 0>>),
       EquityTract(0, 1, <<1, 1, 1, 0, 0, 0>>),
       EquityTract(0, 2, <<1, 1, 1, 1, 1, 1>>),
       EquityTract(2, 2, <<1, 1, 1, 1, 1, 1>>) >>

\* The tables of tracts latest_data_census_tracts / clean_equity_data hand
\* over: up to MaxTracts of the tracts above, repeats allowed, listed in one
\* order (the classifier does not depend on the order of the tracts).
EquityTables ==
    UNION { { [i \in 1..n |-> EquityTracts[k[i]]] :
                k \in { f \in [1..n -> 1..Len(EquityTracts)] :
                          \A i \in 1..(n - 1) : f[i] <= f[i + 1] } } :
            n \in 1..MaxTracts }

\* run.py is not in use while the explorer page is.
RunClosed ==
    /\ mode = "UI"
    /\ RankerIdle
    /\ fetched = EmptyFrame
    /\ df = EmptyFrame
    /\ temp_df = EmptyFrame
    /\ analysis_df = EmptyFrame
    /\ crossed = EmptyFrame
    /\ shown = EmptyFrame
    /\ pin = <<>>
    /\ pout = <<>>

\* The page with a county chosen and its tracts loaded, before the slider is
\* drawn for the first time.
InitEquity ==
    /\ RunClosed
    /\ pc = "equity"
    /\ tracts \in EquityTables
    /\ concentration = "Low"
    /\ equity = <<>>
    /\ normalized_data = <<>>
    /\ index_value = <<>>
    /\ weight_error = FALSE
    /\ transport_index = <<>>
    /\ num_tracts = 0
    /\ selected = <<>>

\* One run of the page down to the classifier: the slider is at its first
\* option on the first run and wherever the user put it afterwards.
SelectConcentration ==
    /\ pc = "equity"
    /\ \E c \in ConcentrationOptions :
          /\ equity = <<>> => c = "Low"
          /\ concentration' = c
          /\ equity' = (c :> get_equity_geographies(tracts, coeff[c])) @@ equity
    /\ UNCHANGED <<mode, pc, fetched, df, temp_df, analysis_df, crossed, shown,
                   pin, pout, ranker, tracts, normalized_data, index_value,
                   weight_error, transport_index, num_tracts, selected>>

NextEquity == SelectConcentration

SpecEquity == InitEquity /\ [][NextEquity]_vars

---------------------------------------------------------------------------
(* The classifier's claims.  The thresholds are worked out again here from *)
(* the tracts, in whole numbers: with n tracts, S the sum and Q the sum of *)
(* squares of an indicator, a value v is at or over mean + k/2 standard    *)
(* deviations iff  n*v >= S  and  4*(n*v - S)^2 >= k^2 * (n*Q - S^2).      *)

\* Twice the coefficient the page documents for each slider position
\* (0.5, 1 and 1.5).
TwiceCoefficient(c) ==
    CASE c = "Low" -> 1 [] c = "Medium" -> 2 [] c = "High" -> 3

\* Tract i's value of the indicator is at or over the indicator's threshold
\* at slider position c.
OverThreshold(i, ind, c) ==
    LET s == Concrete(IndicatorValues(tracts, ind))
        n == Len(s)
        S == Sum(s)
        Q == Sum([j \in 1..n |-> s[j] * s[j]])
        d == n * s[i] - S
        k == TwiceCoefficient(c)
    IN  d >= 0 /\ 4 * d * d >= k * k * (n * Q - S * S)

\* How many of the six remaining indicators of tract i are over threshold.
RemainingOver(i, c) ==
    Cardinality({ind \in EQUITY_CENSUS_REMAINING_HEADERS : OverThreshold(i, ind, c)})

\* The classifier's row for tract i at slider position c.
Classified(i, c) == equity[c].total_census_tracts[i]

(* C12.  Criterion A holds for a tract iff its People of Color and its     *)
(* Low-Income indicator both exceed their thresholds; the order in which   *)
(* the two are checked does not matter, and a tract that exceeds only one  *)
(* of the two does not satisfy A.                                          *)
C12_CriterionANeedsBoth ==
    \A c \in DOMAIN equity : \A i \in 1..Len(tracts) :
        LET row == Classified(i, c)
        IN  /\ row.criteria_A <=> (OverThreshold(i, PEOPLE_OF_COLOR, c)
                                   /\ OverThreshold(i, LOW_INCOME, c))
            /\ row.criteria_A = criteria_A(row.checks[LOW_INCOME],
                                           row.checks[PEOPLE_OF_COLOR])

\* One table with a tract that meets A, one over the People of Color
\* threshold only and one over the Low-Income threshold only.
C12_Witness ==
    \E c \in DOMAIN equity : \E i, j, k \in 1..Len(tracts) :
        /\ Classified(i, c).criteria_A
        /\ OverThreshold(j, PEOPLE_OF_COLOR, c) /\ ~OverThreshold(j, LOW_INCOME, c)
        /\ ~Classified(j, c).criteria_A
        /\ OverThreshold(k, LOW_INCOME, c) /\ ~OverThreshold(k, PEOPLE_OF_COLOR, c)
        /\ ~Classified(k, c).criteria_A

(* C13.  Criterion B holds for a tract iff its Low-Income indicator        *)
(* exceeds its threshold and at least three of the six remaining           *)
(* indicators exceed theirs: Low-Income with only two of the six fails B,  *)
(* and three or more of the six without Low-Income fails B.                *)
C13_CriterionBNeedsLowIncomeAndThree ==
    \A c \in DOMAIN equity : \A i \in 1..Len(tracts) :
        LET row == Classified(i, c)
        IN  /\ row.remaining = RemainingOver(i, c)
            /\ row.criteria_B <=> (OverThreshold(i, LOW_INCOME, c)
                                   /\ RemainingOver(i, c) >= 3)

\* One table with a tract that meets B, one over the Low-Income threshold
\* with exactly two of the six, and one with three or more of the six but
\* not over the Low-Income threshold.
C13_Witness ==
    \E c \in DOMAIN equity : \E i, j, k \in 1..Len(tracts) :
        /\ Classified(i, c).criteria_B
        /\ OverThreshold(j, LOW_INCOME, c) /\ RemainingOver(j, c) = 2
        /\ ~Classified(j, c).criteria_B
        /\ ~OverThreshold(k, LOW_INCOME, c) /\ RemainingOver(k, c) >= 3
        /\ ~Classified(k, c).criteria_B

(* C14.  A tract is in the equity subset the classifier returns iff it     *)
(* satisfies Criterion A or Criterion B, and every row of the subset is a  *)
(* row of the full, unfiltered table returned with it.                     *)
C14_SubsetIsAOrB ==
    \A c \in DOMAIN equity :
        LET total  == equity[c].total_census_tracts
            subset == equity[c].equity_df
        IN  /\ Len(total) = Len(tracts)
            /\ \A i \in 1..Len(tracts) :
                  (\E j \in 1..Len(subset) : subset[j].tract = i)
                     <=> (total[i].criteria_A \/ total[i].criteria_B)
            /\ \A j \in 1..Len(subset) :
                  /\ subset[j].tract \in 1..Len(total)
                  /\ subset[j] = total[subset[j].tract]
            /\ \A j, k \in 1..Len(subset) :
                  subset[j].tract = subset[k].tract => j = k

\* A result whose subset holds a tract by A only and a tract by B only, and
\* leaves a tract out.
C14_Witness ==
    \E c \in DOMAIN equity :
        LET total  == equity[c].total_census_tracts
            subset == equity[c].equity_df
        IN  /\ \E j \in 1..Len(subset) : subset[j].criteria_A /\ ~subset[j].criteria_B
            /\ \E j \in 1..Len(subset) : subset[j].criteria_B /\ ~subset[j].criteria_A
            /\ Len(subset) < Len(total)

\* The number of equity geographies found at slider position c.
EquityCount(c) == Len(equity[c].equity_df)

(* C15.  Over a fixed set of tracts the slider passes 0.5 at Low (where it *)
(* starts), 1 at Medium and 1.5 at High, and a higher coefficient never    *)
(* finds more equity geographies: the count at 1.5 is at most the count at *)
(* 1.0, which is at most the count at 0.5.                                 *)
C15_HigherCoefficientNarrows ==
    /\ equity # <<>> => "Low" \in DOMAIN equity
    /\ \A c \in DOMAIN equity : \A ind \in EquityIndicators :
          equity[c].concentration_thresholds[ind].coefficient
             = Rat(TwiceCoefficient(c), 2)
    /\ \A c1, c2 \in DOMAIN equity :
          TwiceCoefficient(c1) < TwiceCoefficient(c2)
             => EquityCount(c2) <= EquityCount(c1)

\* The slider has been at all three positions over one set of tracts, and
\* each step up lost at least one equity geography.
C15_Witness ==
    /\ DOMAIN equity = ConcentrationOptions
    /\ EquityCount("High") < EquityCount("Medium")
    /\ EquityCount("Medium") < EquityCount("Low")

AtRegionalMaximum(i) ==
    \A ind \in EQUITY_CENSUS_REMAINING_HEADERS : \A j \in 1..Len(tracts) :
        tracts[j][ind] <= tracts[i][ind]

\* Tract i is the only tract at the regional maximum of all six.
OnlyOneAtMaximum(i) ==
    \A j \in 1..Len(tracts) : AtRegionalMaximum(j) <=> j = i

\* On each of the six remaining indicators the tracts other than i share one
\* value, lower than tract i's.
OthersShareLowerValue(i) ==
    \A ind \in EQUITY_CENSUS_REMAINING_HEADERS :
        \A j, k \in (1..Len(tracts)) \ {i} :
            /\ tracts[j][ind] = tracts[k][ind]
            /\ tracts[j][ind] < tracts[i][ind]

(* C17, as claimed.  In every set of 5 tracts in which exactly one tract   *)
(* has all six remaining indicators at the regional maximum, and at every  *)
(* slider position, that tract satisfies Criterion B whenever its          *)
(* Low-Income indicator exceeds its threshold.                             *)
C17_Original ==
    Len(tracts) = 5 =>
       \A c \in DOMAIN equity : \A i \in 1..5 :
          (OnlyOneAtMaximum(i) /\ OverThreshold(i, LOW_INCOME, c))
             => Classified(i, c).criteria_B

(* C17, amended.  In every set of 5 tracts in which one tract has all six  *)
(* remaining indicators at the regional maximum while the other four share *)
(* one lower value on each of the six, and at every slider position, that  *)
(* tract satisfies Criterion B whenever its Low-Income indicator exceeds   *)
(* its threshold, whether or not it satisfies Criterion A.                 *)
C17_TopTractAmongEqualsMeetsB ==
    Len(tracts) = 5 =>
       \A c \in DOMAIN equity : \A i \in 1..5 :
          (OnlyOneAtMaximum(i) /\ OthersShareLowerValue(i)
              /\ OverThreshold(i, LOW_INCOME, c))
             => /\ Classified(i, c).remaining = 6
                /\ Classified(i, c).criteria_B

\* Five tracts classified at all three positions, the top tract meeting B at
\* each of them without meeting A.
C17_Witness ==
    /\ Len(tracts) = 5
    /\ DOMAIN equity = ConcentrationOptions
    /\ \E i \in 1..5 :
          /\ OnlyOneAtMaximum(i) /\ OthersShareLowerValue(i)
          /\ \A c \in ConcentrationOptions :
                /\ OverThreshold(i, LOW_INCOME, c)
                /\ Classified(i, c).criteria_B
                /\ ~Classified(i, c).criteria_A

---------------------------------------------------------------------------
(* The equity explorer: the Transportation Vulnerability Index.  A series  *)
(* is a sequence of [tract, value]; a normalized table has its columns     *)
(* (cols) and a sequence of rows [tract, cells], cells giving the tract's  *)
(* value of each column.                                                   *)

\* One indicator of each normalized table (queries.TRANSPORT_CENSUS_HEADERS
\* and queries.CLIMATE_CENSUS_HEADERS).
ZERO_VEHICLE == "Zero-Vehicle Households (%)"
CLIMATE_RISK == "Climate Risk"
IndexIndicators == <<ZERO_VEHICLE, CLIMATE_RISK>>

\* selected_indicators: the indicators that were given a weight, in the
\* order of the multiselect.
selected_indicators(weights) ==
    SelectSeq(IndexIndicators, LAMBDA ind : ind \in DOMAIN weights)

\* sum(index_value.values())
RECURSIVE SumValues(_)
SumValues(weights) ==
    IF DOMAIN weights = {} THEN 0
    ELSE LET k == CHOOSE k \in DOMAIN weights : TRUE
         IN  weights[k] + SumValues([j \in DOMAIN weights \ {k} |-> weights[j]])

\* The test on the weights, with every sum other than 100 refused.
weights_rejected_unless_100(weights) ==
    LET total == SumValues(weights)
    IN  total # 100

\* if sum(index_value.values()) > 101 or sum(index_value.values()) < 99
weights_rejected(weights) ==
    LET total == SumValues(weights)
    IN  total > 101 \/ total < 99

\* The census tracts of a table.
TractsOf(table) == {table.rows[k].tract : k \in 1..Len(table.rows)}

\* A tract's value of an indicator in a table; NaN if the table has no row
\* for the tract or no such column.
ValueIn(table, tract, ind) ==
    IF ind \in table.cols /\ tract \in TractsOf(table)
    THEN LET k == CHOOSE k \in 1..Len(table.rows) : table.rows[k].tract = tract
         IN  table.rows[k].cells[ind]
    ELSE NaN

\* The census tracts of a set, in ascending order.
RECURSIVE Ascending(_)
Ascending(S) ==
    IF S = {} THEN <<>>
    ELSE LET m == CHOOSE m \in S : \A x \in S : m <= x
         IN  <<m>> \o Ascending(S \ {m})

\* normalized_data['Transportation'].merge(normalized_data['Climate'],
\*                                         how='outer', on='Census Tract')
\* One row per tract of either table; a tract missing from a table has NaN
\* in that table's columns.
outer_merge(left, right) ==
    LET keys == Ascending(TractsOf(left) \cup TractsOf(right))
    IN  [k \in 1..Len(keys) |->
            [tract |-> keys[k],
             cells |-> [ind \in left.cols \cup right.cols |->
                          IF ind \in left.cols
                          THEN ValueIn(left, keys[k], ind)
                          ELSE ValueIn(right, keys[k], ind)]]]

\* combined.melt('Census Tract', selected_indicators, 'Indicators'): one
\* row per selected indicator and tract, indicator by indicator.
RECURSIVE melt(_, _)
melt(combined, indicators) ==
    IF indicators = <<>> THEN <<>>
    ELSE [k \in 1..Len(combined) |->
             [tract      |-> combined[k].tract,
              Indicators |-> Head(indicators),
              value      |-> combined[k].cells[Head(indicators)]]]
         \o melt(combined, Tail(indicators))

\* The 'Index Value' column, left as the normalized value.
index_values_unweighted(melted, weights) ==
    [k \in 1..Len(melted) |->
        [tract      |-> melted[k].tract,
         Indicators |-> melted[k].Indicators,
         value      |-> melted[k].value]]

\* combined['Index Value'] =
\*     combined['Indicators'].apply(lambda x: index_value[x]) * combined['Index Value']
index_values(melted, weights) ==
    [k \in 1..Len(melted) |->
        [tract      |-> melted[k].tract,
         Indicators |-> melted[k].Indicators,
         value      |-> RMul(R(weights[melted[k].Indicators]), melted[k].value)]]

\* combined.groupby(['Census Tract'])['Index Value'].sum(): one entry per
\* tract, in ascending order of the tracts; NaN is skipped by the sum.
groupby_sum(melted) ==
    LET keys == Ascending({melted[k].tract : k \in 1..Len(melted)})
    IN  [g \in 1..Len(keys) |->
            [tract |-> keys[g],
             value |-> RSumSkipNa(
                          LET rows == SelectSeq(melted,
                                         LAMBDA r : r.tract = keys[g])
                          IN  [k \in 1..Len(rows) |-> rows[k].value])]]

\* The orders of a set of entries, values descending; entries of equal
\* value come in any order (the sort is not stable).
RECURSIVE IndexOrders(_)
IndexOrders(S) ==
    IF S = {} THEN {<<>>}
    ELSE UNION { { <<e>> \o rest : rest \in IndexOrders(S \ {e}) } :
                 e \in {e \in S : \A f \in S : ~RLt(e.value, f.value)} }

\* transport_index.sort_values(ascending=False): what the sort may leave.
sort_index(series) == IndexOrders({series[k] : k \in 1..Len(series)})

\* The index as lines 257-265 build it, sorted: the admissible results.
build_transport_index(data, weights) ==
    LET combined == Concrete(outer_merge(data.Transportation, data.Climate))
        melted   == Concrete(melt(combined, selected_indicators(weights)))
        weighted == Concrete(index_values(melted, weights))
    IN  sort_index(Concrete(groupby_sum(weighted)))

\* The slider's starting value, always 5.
default_num_tracts_5(n) == 5

\* value=[5 if 5 < len(transport_index) else len(transport_index)]
default_num_tracts(n) == IF 5 < n THEN 5 ELSE n

\* transport_index.head(num_tracts)
head(series, k) == SubSeq(series, 1, IF k < Len(series) THEN k ELSE Len(series))

\* The normalized values of the tracts tried: in both tables, and in one of
\* them only.
IndexTractValues ==
    << (ZERO_VEHICLE :> Rat(1, 5)) @@ (CLIMATE_RISK :> Rat(2, 5)),
       (ZERO_VEHICLE :> Rat(4, 5)) @@ (CLIMATE_RISK :> Rat(3, 5)),
       (ZERO_VEHICLE :> R(1)),
       (CLIMATE_RISK :> R(1)) >>

\* The rows of a table for the tracts given: the tracts that have a value of
\* the table's indicator, in tract order.
TableOf(values, ind) ==
    LET present == SelectSeq([k \in 1..Len(values) |-> k],
                             LAMBDA k : ind \in DOMAIN values[k])
    IN  [cols |-> {ind},
         rows |-> [k \in 1..Len(present) |->
                     [tract |-> present[k],
                      cells |-> (ind :> values[present[k]][ind])]]]

\* The pairs of normalized tables clean_transport_data and
\* clean_climate_data hand over: up to MaxIndexTracts tracts, each kind of
\* tract at most twice, tracts numbered from 1.
NormalizedTables ==
    UNION { { [Transportation |-> TableOf([i \in 1..n |-> IndexTractValues[k[i]]],
                                          ZERO_VEHICLE),
               Climate        |-> TableOf([i \in 1..n |-> IndexTractValues[k[i]]],
                                          CLIMATE_RISK)] :
                k \in { f \in [1..n -> 1..Len(IndexTractValues)] :
                          /\ \A i \in 1..(n - 1) : f[i] <= f[i + 1]
                          /\ \A i \in 1..(n - 2) : f[i] < f[i + 2] } } :
            n \in 1..MaxIndexTracts }

\* The weights typed: the default for two indicators and for one, sums of
\* 99 and 101, sums outside 99..101, an indicator weighted 0, and no
\* indicator selected at all.
WeightChoices ==
    { (ZERO_VEHICLE :> 50) @@ (CLIMATE_RISK :> 50),
      (ZERO_VEHICLE :> 49) @@ (CLIMATE_RISK :> 50),
      (ZERO_VEHICLE :> 51) @@ (CLIMATE_RISK :> 50),
      (ZERO_VEHICLE :> 49) @@ (CLIMATE_RISK :> 49),
      (ZERO_VEHICLE :> 51) @@ (CLIMATE_RISK :> 51),
      (ZERO_VEHICLE :> 0) @@ (CLIMATE_RISK :> 100),
      (ZERO_VEHICLE :> 100) @@ (CLIMATE_RISK :> 100),
      (ZERO_VEHICLE :> 100),
      (CLIMATE_RISK :> 30),
      <<>> }

\* The page with the normalized tables loaded, before the index section has
\* run.
InitIndex ==
    /\ RunClosed
    /\ pc = "index"
    /\ tracts = <<>>
    /\ concentration = "Low"
    /\ equity = <<>>
    /\ normalized_data \in NormalizedTables
    /\ index_value = <<>>
    /\ weight_error = FALSE
    /\ transport_index = <<>>
    /\ num_tracts = 0
    /\ selected = <<>>

\* One run of the index section (lines 224-273) with the weights typed,
\* the index as the sort left it and the tract slider at k.
RunIndexSection(weights, index, k) ==
    /\ index_value' = weights
    /\ weight_error' = weights_rejected(weights)
    /\ transport_index' = index
    /\ num_tracts' = k
    /\ selected' = head(index, k)

\* The first run: the user has chosen indicators and weights, the tract
\* slider is new and stands at its starting value.  With no indicator
\* selected the index is empty and the slider is asked for min_value 1,
\* max_value 0 and value 0: depending on the library it raises, and the
\* page stops there, or it returns 0.
ViewIndex ==
    /\ pc = "index"
    /\ \E weights \in WeightChoices :
          \E index \in build_transport_index(normalized_data, weights) :
             /\ RunIndexSection(weights, index, default_num_tracts(Len(index)))
             /\ IF Len(index) >= 1 THEN pc' = "map" ELSE pc' \in {"map", "failed"}
    /\ UNCHANGED <<mode, fetched, df, temp_df, analysis_df, crossed, shown,
                   pin, pout, ranker, tracts, concentration, equity, normalized_data>>

\* The user moves the tract slider; the page runs again with the same
\* weights.
MoveTractSlider ==
    /\ pc \in {"map", "moved"}
    /\ pc' = "moved"
    /\ \E index \in build_transport_index(normalized_data, index_value) :
          \E k \in 1..Len(transport_index) :
             /\ k # num_tracts
             /\ RunIndexSection(index_value, index, k)
    /\ UNCHANGED <<mode, fetched, df, temp_df, analysis_df, crossed, shown,
                   pin, pout, ranker, tracts, concentration, equity, normalized_data>>

NextIndex ==
    \/ ViewIndex
    \/ MoveTractSlider

SpecIndex == InitIndex /\ [][NextIndex]_vars

---------------------------------------------------------------------------
(* The index's claims.                                                     *)

\* The tracts of the normalized tables.
IndexTracts ==
    TractsOf(normalized_data.Transportation) \cup TractsOf(normalized_data.Climate)

\* weight x normalized value of one indicator for a tract; nothing for an
\* indicator that is not selected or has no value for the tract.
WeightedTerm(ind, table, tract) ==
    IF ind \in DOMAIN index_value /\ tract \in TractsOf(table)
    THEN RMul(R(index_value[ind]), ValueIn(table, tract, ind))
    ELSE R(0)

\* The sum over the selected indicators of weight x normalized value.
WeightedSum(tract) ==
    RAdd(WeightedTerm(ZERO_VEHICLE, normalized_data.Transportation, tract),
         WeightedTerm(CLIMATE_RISK, normalized_data.Climate, tract))

\* The index section has run on a selection of indicators (the run with no
\* indicator selected is the subject of C21).
IndexShown == pc \in {"map", "moved"} /\ DOMAIN index_value # {}

\* Two units, the indicators normalized to [0.2, 0.8] and [0.4, 0.6], and
\* equal weights on the two indicators.
EqualWeightsScenario ==
    /\ normalized_data.Transportation.rows
          = << [tract |-> 1, cells |-> (ZERO_VEHICLE :> Rat(1, 5))],
               [tract |-> 2, cells |-> (ZERO_VEHICLE :> Rat(4, 5))] >>
    /\ normalized_data.Climate.rows
          = << [tract |-> 1, cells |-> (CLIMATE_RISK :> Rat(2, 5))],
               [tract |-> 2, cells |-> (CLIMATE_RISK :> Rat(3, 5))] >>
    /\ DOMAIN index_value = {ZERO_VEHICLE, CLIMATE_RISK}
    /\ index_value[ZERO_VEHICLE] = index_value[CLIMATE_RISK]

(* C18.  The index has one entry per tract, and the entry of a tract is    *)
(* the sum over the selected indicators of weight(i) x normalized value of *)
(* the tract (an indicator without a value for the tract adds nothing);    *)
(* with equal weights on two indicators normalized to [0.2, 0.8] and       *)
(* [0.4, 0.6] for units 1 and 2, unit 2 is ranked above unit 1.            *)
C18_IndexIsWeightedSum ==
    IndexShown =>
       /\ Len(transport_index) = Cardinality(IndexTracts)
       /\ {transport_index[k].tract : k \in 1..Len(transport_index)} = IndexTracts
       /\ \A k \in 1..Len(transport_index) :
             transport_index[k].value = WeightedSum(transport_index[k].tract)
       /\ EqualWeightsScenario
             => /\ transport_index[1].tract = 2
                /\ transport_index[2].tract = 1

\* The scenario with weights 50 and 50: unit 2 first with 70, unit 1 with 30.
C18_Witness ==
    /\ IndexShown
    /\ EqualWeightsScenario
    /\ index_value[ZERO_VEHICLE] = 50
    /\ transport_index = << [tract |-> 2, value |-> R(70)],
                            [tract |-> 1, value |-> R(30)] >>

\* The sum of the weights typed.
WeightTotal ==
    (IF ZERO_VEHICLE \in DOMAIN index_value THEN index_value[ZERO_VEHICLE] ELSE 0)
    + (IF CLIMATE_RISK \in DOMAIN index_value THEN index_value[CLIMATE_RISK] ELSE 0)

(* C19.  The index is computed and ranked for any weights in 0..100,       *)
(* whether or not they sum to 100: the error is on the page exactly when   *)
(* the sum is below 99 or above 101, and with or without it the index has  *)
(* an entry for every tract, holding the weighted sum, and the top tracts  *)
(* are handed on.                                                          *)
C19_WeightErrorOnlyDisplayed ==
    IndexShown =>
       /\ \A ind \in DOMAIN index_value : index_value[ind] \in 0..100
       /\ weight_error <=> (WeightTotal < 99 \/ WeightTotal > 101)
       /\ WeightTotal \in 99..101 => ~weight_error
       /\ Len(transport_index) = Cardinality(IndexTracts)
       /\ \A k \in 1..Len(transport_index) :
             /\ transport_index[k].tract \in IndexTracts
             /\ transport_index[k].value = WeightedSum(transport_index[k].tract)
       /\ selected = SubSeq(transport_index, 1, num_tracts)
       /\ selected # <<>>

\* Weights that sum to 200: the error is shown and the index is there.
C19_Witness ==
    /\ IndexShown
    /\ WeightTotal = 200
    /\ weight_error
    /\ Len(transport_index) > 1
    /\ selected # <<>>
    /\ \E k \in 1..Len(transport_index) : transport_index[k].value # R(0)

\* The index does not rise from one entry to the next.
RankedDescending ==
    \A k \in 1..(Len(transport_index) - 1) :
        RLe(transport_index[k + 1].value, transport_index[k].value)

(* C20.  The tracts are ranked descending by index; the top-K request      *)
(* returns exactly K tracts, each with an index at least that of every     *)
(* tract not returned; K lies between 1 and the number of tracts, and      *)
(* starts at min(5, number of tracts).                                     *)
C20_TopKOfDescendingRanking ==
    IndexShown =>
       LET n        == Cardinality(IndexTracts)
           returned == {selected[k].tract : k \in 1..Len(selected)}
       IN  /\ RankedDescending
           /\ num_tracts \in 1..n
           /\ pc = "map" => num_tracts = (IF n < 5 THEN n ELSE 5)
           /\ Len(selected) = num_tracts
           /\ Cardinality(returned) = num_tracts
           /\ returned \subseteq IndexTracts
           /\ \A k \in 1..Len(selected) :
                 selected[k].value = WeightedSum(selected[k].tract)
           /\ \A t \in returned : \A u \in IndexTracts \ returned :
                 RLe(WeightedSum(u), WeightedSum(t))

\* More than 5 tracts: the slider starts at 5, and the last tract returned
\* ties with one left out.
C20_Witness ==
    /\ pc = "map"
    /\ Cardinality(IndexTracts) > 5
    /\ num_tracts = 5
    /\ Len(selected) = 5
    /\ transport_index[5].value = transport_index[6].value

\* Lines 257-265 have run: the tables were merged, melted, weighted, summed
\* and sorted.
IndexComputed == pc \in {"map", "moved", "failed"}

(* C21.  An invalid configuration is rejected before any computation: no   *)
(* coefficient <= 0 reaches the classifier, and the index section does not *)
(* compute an index for an empty selection of indicators.  (As claimed.)   *)
C21_Original ==
    /\ \A c \in DOMAIN equity : \A ind \in EquityIndicators :
          RLt(R(0), equity[c].concentration_thresholds[ind].coefficient)
    /\ ~(IndexComputed /\ DOMAIN index_value = {})

---------------------------------------------------------------------------
(* rank_counties called directly, as one call: on a table that may lack a  *)
(* column, hold no county or hold a missing value, and on one table after  *)
(* another.                                                                *)

\* Largest number of counties in a table handed to rank_counties directly.
MaxRankUnits == 2

\* What one call of rank_counties leaves behind: how it ended, the frame it
\* returned and the caller's frame as the call left it.
Returned(result, caller_df) ==
    [outcome |-> "returned", failure |-> NoFailure,
     result |-> result, df |-> caller_df]

Failed(stage, error, caller_df) ==
    [outcome |-> "raised", failure |-> [stage |-> stage, error |-> error],
     result |-> EmptyFrame, df |-> caller_df]

\* The five calls of percent_to_population in normalize, in their order.
Conversions ==
    << <<POVERTY, POP_POVERTY>>, <<UNEMPLOYMENT, POP_UNEMPLOYED>>,
       <<BURDENED, NUM_BURDENED>>, <<SINGLE_PARENT, NUM_SINGLE_PARENT>>,
       <<NON_HOME_OWNERSHIP, NON_HOME_POP>> >>

\* Lines 119-123 from the k-th conversion on: df[feature] and
\* df['Resident Population (Thousands of Persons)'] raise KeyError for a
\* column that is not there; the conversions before it are already written
\* into the caller's frame.
RECURSIVE convert_from(_, _)
convert_from(k, t) ==
    IF k > Len(Conversions) THEN [ok |-> TRUE, df |-> t]
    ELSE IF ~({Conversions[k][1], POPULATION} \subseteq t.cols)
         THEN [ok |-> FALSE, df |-> t]
    ELSE convert_from(k + 1,
                      percent_to_population(Conversions[k][1],
                                            Conversions[k][2], t))

\* Line 125-126: the drop of both policy columns, asked for when either is
\* in the frame, raises KeyError when the other is not.
policy_drop_fails(t) ==
    /\ POLICY_VALUE \in t.cols \/ COUNTDOWN \in t.cols
    /\ ~({POLICY_VALUE, COUNTDOWN} \subseteq t.cols)

\* A scaler that takes a frame without rows (the difference C22 is
\* sensitive to).
enough_samples_any(t) == TRUE

\* Line 137: MaxAbsScaler.fit_transform validates its input and raises
\* ValueError for an array with 0 samples.
enough_samples(t) == NRows(t) >= 1

\* Line 108: df[columns] raises KeyError for a core column that is not there.
cross_columns_missing(t) ==
    \E k \in 1..Len(CrossCols) : CrossCols[k] \notin t.cols

\* rank_counties(df, label), lines 169-189.
rank_counties(t) ==
    IF COUNTY_ID \notin t.cols THEN Failed("drop county_id", "KeyError", t)
    ELSE
    LET conv == convert_from(1, Drop(t, {COUNTY_ID}))
    IN  IF ~conv.ok THEN Failed("normalize", "KeyError", conv.df)
        ELSE IF policy_drop_fails(conv.df)
             THEN Failed("normalize", "KeyError", conv.df)
        ELSE IF ~enough_samples(conv.df)
             THEN Failed("normalize", "ValueError", conv.df)
        ELSE
        LET scaled == fit_transform(normalize_drops(conv.df))
        IN  IF cross_columns_missing(scaled)
            THEN Failed("cross_features", "KeyError", conv.df)
            ELSE
            LET ranked == with_rank(relative_risk(scaled, cross_features(scaled)),
                                    conv.df)
            IN  IF RankRaised(ranked)
                THEN Failed("priority_indicator", "ValueError", conv.df)
                ELSE Returned(ranked, conv.df)

\* clean_data's result for 0..MaxRankUnits counties.
CleanTables ==
    UNION { { clean_data([cols |-> RawCols,
                          rows |-> [i \in 1..n |-> FetchedRow(i, f[i])]])
              : f \in [1..n -> CountyProfiles] }
            : n \in 0..MaxRankUnits }

\* The columns a table is tried without, one at a time.
LeftOut == {COUNTY_ID, POVERTY, NON_HOME_OWNERSHIP, POPULATION, INEQUALITY}

\* The table with the first county's value of column c missing.
WithMissingValue(t, c) ==
    [cols |-> t.cols,
     rows |-> [i \in 1..NRows(t) |->
                 [name  |-> t.rows[i].name,
                  cells |-> [k \in t.cols |->
                               IF i = 1 /\ k = c THEN NaN
                               ELSE t.rows[i].cells[k]]]]]

\* The table with one policy setting for every county.
WithPolicy(t, ps) ==
    SetColumn(SetColumn(t, POLICY_VALUE, [i \in 1..NRows(t) |-> ps.pv]),
              COUNTDOWN, [i \in 1..NRows(t) |-> ps.cd])

PolicyVariants(t) == { WithPolicy(t, ps) : ps \in PolicySettings }

\* The tables a caller hands over: complete, without one column, with one
\* value missing, with the policy columns, with 'Policy Value' alone.
RankTables ==
    UNION { {t} \cup { Drop(t, {c}) : c \in LeftOut }
                \cup (IF NRows(t) >= 1 THEN {WithMissingValue(t, POVERTY)} ELSE {})
                \cup PolicyVariants(t)
                \cup { Drop(WithPolicy(t, ps), {COUNTDOWN}) : ps \in PolicySettings }
            : t \in CleanTables }

\* Two unit sets a caller turns to next, whatever it ranked before: the
\* county with poverty alone, by itself and next to a larger county.
OtherUnitSets ==
    { clean_data([cols |-> RawCols,
                  rows |-> [i \in 1..Len(ps) |-> FetchedRow(i, ps[i])]])
      : ps \in { << Profile(100, 100, 0, 0, 0, 1, 0, 1000) >>,
                 << Profile(100, 100, 0, 0, 0, 1, 0, 1000),
                    Profile(0, 100, 0, 50, 100, 4, 2, 4000) >> } }

\* The table before any call of rank_counties.
InitRank ==
    /\ mode = "SCRIPT"
    /\ pc = "ready"
    /\ fetched \in RankTables
    /\ df = fetched
    /\ temp_df = EmptyFrame
    /\ analysis_df = EmptyFrame
    /\ crossed = EmptyFrame
    /\ shown = EmptyFrame
    /\ pin = <<>>
    /\ pout = <<>>
    /\ ExplorerClosed
    /\ RankerIdle

\* A call that hands back the ranking of the call before when that call
\* returned one (the difference C26 is sensitive to).
CallRankCountiesCached ==
    /\ pc = "ready"
    /\ LET r == IF earlier # <<>> /\ earlier[1].outcome = "returned"
                THEN Returned(earlier[1].result, df)
                ELSE rank_counties(df)
       IN  /\ pc' = r.outcome
           /\ analysis_df' = r.result
           /\ df' = r.df
           /\ failure' = r.failure
    /\ UNCHANGED <<mode, fetched, temp_df, crossed, shown, pin, pout, explorer,
                   earlier>>

\* analysis_df = rank_counties(df, label): fetched keeps the table as it was
\* handed over, df is the caller's frame as the call leaves it.
CallRankCounties ==
    /\ pc = "ready"
    /\ LET r == rank_counties(df)
       IN  /\ pc' = r.outcome
           /\ analysis_df' = r.result
           /\ df' = r.df
           /\ failure' = r.failure
    /\ UNCHANGED <<mode, fetched, temp_df, crossed, shown, pin, pout, explorer,
                   earlier>>

\* The call that has ended, as the caller remembers it.
ThisCall == [table |-> fetched, outcome |-> pc, result |-> analysis_df]

\* The caller hands the same frame to rank_counties once more.
RankSameFrameAgain ==
    /\ pc \in {"returned", "raised"}
    /\ pc' = "ready"
    /\ earlier' = <<ThisCall>>
    /\ fetched' = df
    /\ analysis_df' = EmptyFrame
    /\ failure' = NoFailure
    /\ UNCHANGED <<mode, df, temp_df, crossed, shown, pin, pout, explorer>>

\* The caller builds a table afresh: the same one, the same one under
\* another policy setting, or another unit set.
RankFreshTable ==
    /\ pc \in {"returned", "raised"}
    /\ pc' = "ready"
    /\ earlier' = <<ThisCall>>
    /\ \E t \in {fetched} \cup PolicyVariants(Drop(fetched, {POLICY_VALUE, COUNTDOWN}))
                  \cup OtherUnitSets :
          fetched' = t /\ df' = t
    /\ analysis_df' = EmptyFrame
    /\ failure' = NoFailure
    /\ UNCHANGED <<mode, temp_df, crossed, shown, pin, pout, explorer>>

NextRank ==
    \/ CallRankCounties
    \/ RankSameFrameAgain
    \/ RankFreshTable

SpecRank == InitRank /\ [][NextRank]_vars

---------------------------------------------------------------------------
(* What the claims about a direct call are stated in.                      *)

\* The call of rank_counties on the table in fetched has ended.
CallEnded == pc \in {"returned", "raised"}

\* The columns normalize reads by name.
NormalizeNeeds ==
    {POVERTY, UNEMPLOYMENT, BURDENED, SINGLE_PARENT, NON_HOME_OWNERSHIP,
     POPULATION}

\* The columns of table t that rank_counties asks for by name and t is
\* without ('Countdown' is asked for next to 'Policy Value', and the other
\* way round).
AbsentColumns(t) ==
    (({COUNTY_ID, INEQUALITY} \cup NormalizeNeeds) \ t.cols)
       \cup (IF POLICY_VALUE \in t.cols /\ COUNTDOWN \notin t.cols
             THEN {COUNTDOWN} ELSE {})
       \cup (IF COUNTDOWN \in t.cols /\ POLICY_VALUE \notin t.cols
             THEN {POLICY_VALUE} ELSE {})

\* The stage that asks for column c.
StageNeeding(c) ==
    IF c = COUNTY_ID THEN "drop county_id"
    ELSE IF c = INEQUALITY THEN "cross_features"
    ELSE "normalize"

(* C22.  When the table handed to rank_counties is without a column some   *)
(* stage asks for, or holds no unit, the call ends in a failure raised by  *)
(* a stage that needs what is absent, returns no ranking, and the absent   *)
(* column is not written into the caller's table (with zeros or anything   *)
(* else).                                                                  *)
C22_MissingInputAborts ==
    (CallEnded /\ (AbsentColumns(fetched) # {} \/ NRows(fetched) = 0)) =>
       /\ pc = "raised"
       /\ analysis_df = EmptyFrame
       /\ \/ \E c \in AbsentColumns(fetched) :
                failure = [stage |-> StageNeeding(c), error |-> "KeyError"]
          \/ /\ NRows(fetched) = 0
             /\ failure = [stage |-> "normalize", error |-> "ValueError"]
       /\ \A c \in AbsentColumns(fetched) : c \notin df.cols

C22_Witness ==
    /\ pc = "raised"
    /\ NRows(fetched) = 2
    /\ AbsentColumns(fetched) = {INEQUALITY}
    /\ failure = [stage |-> "cross_features", error |-> "KeyError"]
    /\ POP_POVERTY \in df.cols
    /\ INEQUALITY \notin df.cols

\* Unit i of table t is without a value for some indicator.
HasMissingValue(t, i) == \E c \in t.cols : IsNaN(t.rows[i].cells[c])

\* A tract's normalized value of an indicator, from the table that holds
\* the indicator; NaN when the tract has none.
NormalizedValue(tract, ind) ==
    IF ind = ZERO_VEHICLE
    THEN ValueIn(normalized_data.Transportation, tract, ind)
    ELSE ValueIn(normalized_data.Climate, tract, ind)

(* C23.  A unit without a value for some indicator gets no score that      *)
(* depends on it: rank_counties gives it no Relative Risk, and the index   *)
(* has no entry for a tract without a value for a selected indicator.      *)
(* (As claimed.)                                                           *)
C23_Original ==
    /\ pc = "returned" =>
          \A i \in Units(fetched) :
             HasMissingValue(fetched, i) => IsNaN(RiskOf(analysis_df, i))
    /\ IndexShown =>
          \A k \in 1..Len(transport_index) : \A ind \in DOMAIN index_value :
             ~IsNaN(NormalizedValue(transport_index[k].tract, ind))

\* The columns of a returned ranking that a max-abs scaling produced.
ScaledOnReturn == ScaledCols \cup {CROSSED}

\* The largest absolute value of a column (NaN when it holds no value).
MaxAbsOf(col) == RMaxSkipNa(Concrete([i \in DOMAIN col |-> RAbs(col[i])]))

\* A column as max-abs scaling leaves it: largest absolute value 1, or all 0.
AlreadyScaled(col) == MaxAbsOf(col) = R(1) \/ AllZero(col)

(* C24.  Max-abs scaling applied again to a scaled column over the same    *)
(* units returns the same values: every column of a returned ranking that  *)
(* a scaling produced has largest absolute value 1 or is all zero (when no *)
(* unit is without a value), and normalize_column on it, like              *)
(* fit_transform on all of them, changes nothing.                          *)
C24_ScalingIsIdempotent ==
    pc = "returned" =>
       /\ \A c \in ScaledOnReturn :
             /\ (\A i \in Units(fetched) : ~HasMissingValue(fetched, i))
                   => AlreadyScaled(Column(analysis_df, c))
             /\ AlreadyScaled(Column(analysis_df, c))
                   => normalize_column(analysis_df, c) = analysis_df
       /\ (\A c \in ScaledOnReturn : AlreadyScaled(Column(analysis_df, c)))
             => LET scaled == Drop(analysis_df, analysis_df.cols \ ScaledOnReturn)
                IN  fit_transform(scaled) = scaled

C24_Witness ==
    /\ pc = "returned"
    /\ Concrete(Column(analysis_df, POP_POVERTY)) = <<Rat(1, 4), R(1)>>
    /\ AllZero(Column(analysis_df, POP_UNEMPLOYED))
    /\ normalize_column(analysis_df, POP_POVERTY) = analysis_df
    /\ normalize_column(analysis_df, POP_UNEMPLOYED) = analysis_df

(* C25.  Crossing is symmetric: on the scaled columns of a returned        *)
(* ranking, for every two core indicators A and B and every unit, the      *)
(* value of cross((A, B)) equals the value of cross((B, A)).               *)
C25_CrossIsSymmetric ==
    pc = "returned" =>
       \A a, b \in CoreCols :
          \A i \in Units(analysis_df) :
             cross(<<a, b>>, analysis_df).values[i]
                = cross(<<b, a>>, analysis_df).values[i]

C25_Witness ==
    /\ pc = "returned"
    /\ Concrete(Column(analysis_df, POP_POVERTY)) = <<Rat(1, 2), R(1)>>
    /\ Concrete(Column(analysis_df, INEQUALITY)) = <<R(1), Rat(1, 2)>>
    /\ Concrete(cross(<<POP_POVERTY, INEQUALITY>>, analysis_df).values)
          = <<Rat(1, 2), Rat(1, 2)>>
    /\ Concrete(cross(<<INEQUALITY, POP_POVERTY>>, analysis_df).values)
          = <<Rat(1, 2), Rat(1, 2)>>

\* Column c of the table rank_counties scales, computed from the table t
\* the caller handed over: a count from its percentage and the population,
\* any other column as it is.
RawColumn(t, c) ==
    Concrete([i \in Units(t) |->
       IF \E pq \in PercentCounts : pq[2] = c
       THEN LET pq == CHOOSE pq \in PercentCounts : pq[2] = c
            IN  RMul(RMul(RDiv(t.rows[i].cells[pq[1]], R(100)),
                          t.rows[i].cells[POPULATION]), R(1000))
       ELSE t.rows[i].cells[c]])

C27_Original == CallEnded => df = fetched

\* Table t without its policy columns.
Indicators(t) == Drop(t, {POLICY_VALUE, COUNTDOWN})

(* C28.  Relative Risk does not depend on the policy columns: when the     *)
(* call before returned a ranking for the same indicator values under      *)
(* other, or no, 'Policy Value' and 'Countdown' columns, every unit has    *)
(* the Relative Risk it had then; and the 'Policy Value' and 'Countdown'   *)
(* of the ranking are the values handed over, not scaled.                  *)
C28_RiskIgnoresPolicy ==
    pc = "returned" =>
       /\ \A k \in DOMAIN earlier :
             (/\ earlier[k].outcome = "returned"
              /\ Indicators(earlier[k].table) = Indicators(fetched))
                => \A i \in Units(fetched) :
                      RiskOf(earlier[k].result, i) = RiskOf(analysis_df, i)
       /\ POLICY_VALUE \in fetched.cols =>
             /\ Column(analysis_df, POLICY_VALUE) = Column(fetched, POLICY_VALUE)
             /\ Column(analysis_df, COUNTDOWN) = Column(fetched, COUNTDOWN)

C28_Witness ==
    /\ pc = "returned"
    /\ earlier # <<>>
    /\ earlier[1].outcome = "returned"
    /\ POLICY_VALUE \notin earlier[1].table.cols
    /\ Indicators(fetched) = earlier[1].table
    /\ NRows(fetched) = 2
    /\ POLICY_VALUE \in fetched.cols
    /\ Concrete(Column(analysis_df, POLICY_VALUE)) = <<Rat(1, 2), Rat(1, 2)>>
    /\ Concrete(Column(analysis_df, COUNTDOWN)) = <<R(4), R(4)>>
    /\ RiskOf(analysis_df, 2) = R(1)
    /\ RLt(R(0), RiskOf(analysis_df, 1))
    /\ RLt(RiskOf(analysis_df, 1), R(1))
    /\ RiskOf(earlier[1].result, 1) = RiskOf(analysis_df, 1)

---------------------------------------------------------------------------
(* The equity explorer: the weights the index section starts from (lines   *)
(* 224-252), for selections of any size.  The index built from the weights *)
(* is the subject of SpecIndex.                                            *)

\* Largest number of indicators the multiselect offers.
MaxSelected == 7

\* The options of the multiselect: the four selected by default (line 226)
\* and the further headers of queries.TRANSPORT_CENSUS_HEADERS and
\* queries.CLIMATE_CENSUS_HEADERS.
DefaultSelection ==
    {ZERO_VEHICLE, "Vehicle Miles Traveled", "People of Color (%)",
     "No Computer Households (%)"}

FurtherOptions == { "Indicator " \o ToString(k) : k \in 5..MaxSelected }

IndicatorOptions == DefaultSelection \cup FurtherOptions

\* Python's round on n / d for whole n >= 0 and d > 0: to the nearest whole
\* number, a tie to the even one.
PyRound(n, d) ==
    LET q == n \div d
        r == n % d
    IN  IF 2 * r < d THEN q
        ELSE IF 2 * r > d THEN q + 1
        ELSE IF q % 2 = 0 THEN q ELSE q + 1

\* value=round((100 / len(selected_indicators)))
default_weight(n) == PyRound(100, n)

\* Lines 231-252 with every number_input at its starting value.
default_weights(chosen) ==
    [ind \in chosen |-> default_weight(Cardinality(chosen))]

\* The page as it first comes up: the default selection, untouched weights.
InitWeights ==
    /\ RunClosed
    /\ pc = "weighted"
    /\ tracts = <<>>
    /\ concentration = "Low"
    /\ equity = <<>>
    /\ normalized_data = <<>>
    /\ index_value = default_weights(DefaultSelection)
    /\ weight_error = weights_rejected(index_value)
    /\ transport_index = <<>>
    /\ num_tracts = 0
    /\ selected = <<>>

\* The user changes the multiselect; the page runs again with a number
\* input per selected indicator, each at its starting value.
ChangeSelection ==
    /\ pc \in {"weighted", "typed"}
    /\ pc' = "weighted"
    /\ \E chosen \in SUBSET IndicatorOptions :
          /\ chosen # DOMAIN index_value
          /\ index_value' = default_weights(chosen)
          /\ weight_error' = weights_rejected(default_weights(chosen))
    /\ UNCHANGED <<mode, fetched, df, temp_df, analysis_df, crossed, shown,
                   pin, pout, ranker, tracts, concentration, equity,
                   normalized_data, transport_index, num_tracts, selected>>

\* The user types 0 into one number input (min_value); the page runs again.
TypeWeight ==
    /\ pc \in {"weighted", "typed"}
    /\ pc' = "typed"
    /\ \E ind \in DOMAIN index_value :
          /\ index_value[ind] # 0
          /\ index_value' = [index_value EXCEPT ![ind] = 0]
          /\ weight_error' = weights_rejected([index_value EXCEPT ![ind] = 0])
    /\ UNCHANGED <<mode, fetched, df, temp_df, analysis_df, crossed, shown,
                   pin, pout, ranker, tracts, concentration, equity,
                   normalized_data, transport_index, num_tracts, selected>>

NextWeights ==
    \/ ChangeSelection
    \/ TypeWeight

SpecWeights == InitWeights /\ [][NextWeights]_vars

(* C29.  With every weight left at its starting value round(100 / n), no   *)
(* 'Weights must sum to 100' error is shown, for every number n >= 1 of    *)
(* selected indicators.  (As claimed.)                                     *)
C29_Original ==
    (pc = "weighted" /\ DOMAIN index_value # {}) => ~weight_error

---------------------------------------------------------------------------
(* calculate_cost_estimate called directly on one county.                  *)

\* Largest share of one bedroom size in the housing distribution, in
\* quarters.
MaxShare == 2

\* The bedroom sizes of the housing distribution, in the order of its keys.
Bedrooms == <<0, 1, 2, 3, 4>>

\* The rents the two static tables hold for the county, per bedroom size
\* (columns fmr_0..fmr_4 and rent50_0..rent50_4).
FairMarketRents == [i \in 0..4 |-> R(600 + 200 * i)]

MedianRents == [i \in 0..4 |-> R(500 + 100 * i)]

\* Lines 286-297, one pass of the loop for one county: the five br_cost
\* columns, every one of them with this pass's value, and their total.
cost_pass(county, rents, pct_burdened, value) ==
    LET br == [i \in 0..4 |->
                 RMul(RMul(RMul(RMul(value, rents[i]),
                                RDiv(pct_burdened, R(100))),
                           RMul(county.population, R(1000))),
                      RDiv(county.burdened, R(100)))]
    IN  [br_cost    |-> br,
         total_cost |-> RSumSkipNa([k \in 1..5 |-> br[k - 1]]),
         err        |-> "none"]

\* for key, value in distribution.items(): each pass overwrites the columns
\* of the pass before.
RECURSIVE cost_loop(_, _, _, _, _, _)
cost_loop(keys, distribution, county, rents, pct_burdened, columns) ==
    IF keys = <<>> THEN columns
    ELSE cost_loop(Tail(keys), distribution, county, rents, pct_burdened,
                   cost_pass(county, rents, pct_burdened,
                             distribution[Head(keys)]))

\* Lines 266-298.
calculate_cost_estimate(county, pct_burdened, distribution, rent_type) ==
    IF rent_type \notin {"fmr", "rent50"}
    THEN [br_cost |-> <<>>, total_cost |-> NaN, err |-> "Exception"]
    ELSE cost_loop(Bedrooms, distribution, county,
                   IF rent_type = "fmr" THEN FairMarketRents ELSE MedianRents,
                   pct_burdened,
                   [br_cost |-> <<>>, total_cost |-> NaN, err |-> "none"])

\* The housing distributions: shares in quarters that add up to one.
Distributions ==
    { [i \in 0..4 |-> Rat(f[i], 4)] :
        f \in { g \in [0..4 -> 0..MaxShare] :
                  g[0] + g[1] + g[2] + g[3] + g[4] = 4 } }

\* The counties: 2000 residents with half the households burdened, 4000
\* with a quarter.
CostCounties ==
    { [population |-> R(2), burdened |-> R(50)],
      [population |-> R(4), burdened |-> R(25)] }

InitCost ==
    /\ mode = "UI"
    /\ pc = "call cost"
    /\ fetched = EmptyFrame
    /\ df = EmptyFrame
    /\ temp_df = EmptyFrame
    /\ analysis_df = EmptyFrame
    /\ crossed = EmptyFrame
    /\ shown = EmptyFrame
    /\ pin \in [county : CostCounties, pct_burdened : {R(0), R(50), R(100)},
                distribution : Distributions,
                rent_type : {"fmr", "rent50", "med"}]
    /\ pout = <<>>
    /\ ExplorerClosed
    /\ RankerIdle

CallCalculateCostEstimate ==
    /\ pc = "call cost"
    /\ pc' = "cost"
    /\ pout' = calculate_cost_estimate(pin.county, pin.pct_burdened,
                                       pin.distribution, pin.rent_type)
    /\ UNCHANGED <<mode, fetched, df, temp_df, analysis_df, crossed,
                   shown, pin, explorer, ranker>>

NextCost == CallCalculateCostEstimate

SpecCost == InitCost /\ [][NextCost]_vars

\* The rent of bedroom size i under a rent type.
RentOf(rent_type, i) ==
    IF rent_type = "fmr" THEN FairMarketRents[i] ELSE MedianRents[i]

\* distribution[i] x rent_i x (pct_burdened / 100) x population x
\* (burdened households % / 100) for the call in pin.
ClaimedBedroomCost(i) ==
    RMul(RMul(RMul(RMul(pin.distribution[i], RentOf(pin.rent_type, i)),
                   RDiv(pin.pct_burdened, R(100))),
              RMul(pin.county.population, R(1000))),
         RDiv(pin.county.burdened, R(100)))

(* C30.  For a valid rent type, total_cost is the sum over the bedroom     *)
(* sizes i in 0..4 of distribution[i] x rent_i x (pct_burdened / 100) x    *)
(* population x (burdened households % / 100).  (As claimed.)              *)
C30_Original ==
    (pc = "cost" /\ pin.rent_type \in {"fmr", "rent50"}) =>
       /\ pout.err = "none"
       /\ pout.total_cost
             = RAdd(RAdd(RAdd(RAdd(ClaimedBedroomCost(0), ClaimedBedroomCost(1)),
                              ClaimedBedroomCost(2)),
                         ClaimedBedroomCost(3)),
                    ClaimedBedroomCost(4))

=============================================================================
